---- MODULE Spec2Model ----
(***************************************************************************)
(* Model of the Starbroker chat route (src/app/api/chat/route.ts) and of   *)
(* the tools it binds (src/lib/chatbot/star-tools.ts).                      *)
(*                                                                         *)
(* One POST request is a process whose steps are the code between two      *)
(* awaits: the body read, the first model invocation, each tool call and   *)
(* the second model invocation.  The hosted model, the request bodies, the *)
(* database and a tool body that throws are the environment: the inputs of *)
(* the actions, drawn from bounded sets.                                    *)
(***************************************************************************)
EXTENDS Integers, Sequences, FiniteSets, TLC

(***************************************************************************)
(* Bounds of the model.                                                     *)
(***************************************************************************)
\* longest history array of a request body
MaxHistory == 2
\* most tool calls in one model response
MaxToolCalls == 2
\* longest message list of the chat client
MaxMessages == 4

(***************************************************************************)
(* JavaScript values.  A string is a sequence of tokens (characters or     *)
(* words), so that trim, template literals and JSON text can be computed.  *)
(***************************************************************************)
Undefined == [j |-> "undefined"]
JNull == [j |-> "null"]
JBool(b) == [j |-> "bool", b |-> b]
\* the number n/d; d = 1 for an integer
JFrac(n, d) == [j |-> "num", n |-> n, d |-> d]
JNum(n) == JFrac(n, 1)
JStr(s) == [j |-> "str", s |-> s]
JArr(a) == [j |-> "arr", a |-> a]
\* an object: its properties in insertion order, each <<key, value>>
JObj(o) == [j |-> "obj", o |-> o]

\* typeof v
TypeOf(v) ==
  CASE v.j = "undefined" -> "undefined"
    [] v.j = "bool" -> "boolean"
    [] v.j = "num" -> "number"
    [] v.j = "str" -> "string"
    [] OTHER -> "object"

\* obj[key], undefined when the object has no such property
Get(obj, key) ==
  IF \E i \in 1..Len(obj.o) : obj.o[i][1] = key
  THEN obj.o[CHOOSE i \in 1..Len(obj.o) :
                /\ obj.o[i][1] = key
                /\ \A k \in (i+1)..Len(obj.o) : obj.o[k][1] # key][2]
  ELSE Undefined

\* the whitespace tokens String.prototype.trim removes
IsSpace(tok) == tok \in {" ", "\n", "\t"}

RECURSIVE TrimStart(_)
TrimStart(s) ==
  IF s # <<>> /\ IsSpace(Head(s)) THEN TrimStart(Tail(s)) ELSE s

RECURSIVE TrimEnd(_)
TrimEnd(s) ==
  IF s # <<>> /\ IsSpace(s[Len(s)]) THEN TrimEnd(SubSeq(s, 1, Len(s) - 1)) ELSE s

\* a trim that removes nothing
Untrimmed(s) == s

\* s.trim()
Trim(s) == TrimEnd(TrimStart(s))

(***************************************************************************)
(* JSON.stringify and JSON.parse over token sequences.                      *)
(***************************************************************************)
Quote == "\""
Backslash == "\\"

RECURSIVE Escape(_)
\* the escaping of a string's tokens inside a JSON string literal: a
\* backslash before every quote and every backslash, half by half
Escape(s) ==
  IF s = <<>> THEN <<>>
  ELSE IF Len(s) = 1
  THEN (IF s[1] \in {Quote, Backslash} THEN <<Backslash, s[1]>> ELSE s)
  ELSE Escape(SubSeq(s, 1, Len(s) \div 2)) \o Escape(SubSeq(s, Len(s) \div 2 + 1, Len(s)))

RECURSIVE JsonText(_)
RECURSIVE JsonElems(_)
RECURSIVE JsonProps(_, _)

\* the elements of an array, comma separated
JsonElems(a) ==
  IF a = <<>> THEN <<>>
  ELSE JsonText(Head(a)) \o (IF Len(a) > 1 THEN <<",">> ELSE <<>>) \o JsonElems(Tail(a))

\* the properties of an object; a property whose value is undefined is left out
JsonProps(o, first) ==
  IF o = <<>> THEN <<>>
  ELSE IF Head(o)[2] = Undefined THEN JsonProps(Tail(o), first)
  ELSE (IF first THEN <<>> ELSE <<",">>)
       \o <<Quote, Head(o)[1], Quote, ":">> \o JsonText(Head(o)[2])
       \o JsonProps(Tail(o), FALSE)

\* the text JSON.stringify(v) returns for a defined value v
JsonText(v) ==
  CASE v.j = "null" -> <<"null">>
    [] v.j = "bool" -> IF v.b THEN <<"true">> ELSE <<"false">>
    [] v.j = "num" -> <<ToString(v.n)>>
    [] v.j = "str" -> <<Quote>> \o Escape(v.s) \o <<Quote>>
    [] v.j = "arr" -> <<"[">> \o JsonElems(v.a) \o <<"]">>
    [] v.j = "obj" -> <<"{">> \o JsonProps(v.o, TRUE) \o <<"}">>

\* JSON.stringify(v)
Stringify(v) == JsonText(v)

\* the integers a JSON number token of the model can denote
JsonNumbers == (-9)..99

IsNumberToken(tok) == \E n \in JsonNumbers : ToString(n) = tok

\* a parse result: the value read and the tokens left, or a syntax error
ParseOk(v, rest) == [ok |-> TRUE, v |-> v, rest |-> rest]
ParseFail == [ok |-> FALSE, v |-> Undefined, rest |-> <<>>]

RECURSIVE RunBefore(_, _)
\* the number of backslashes in a row just before the token t[i]
RunBefore(t, i) ==
  IF i = 1 THEN 0
  ELSE IF t[i - 1] # Backslash THEN 0
  ELSE 1 + RunBefore(t, i - 1)

\* the token t[i] of a string literal comes after an odd run of backslashes:
\* the last of them escapes it
IsEscaped(t, i) == RunBefore(t, i) % 2 = 1

RECURSIVE Unescape(_)
\* where the body b of a string literal is split near mid: never between a
\* backslash and the token it escapes
Cut(b, mid) == IF b[mid] = Backslash /\ ~IsEscaped(b, mid) THEN mid - 1 ELSE mid

\* the tokens b stands for, read as the part up to cut and the part after it
UnescapeAt(b, cut) ==
  IF cut = 0 THEN <<b[2]>> \o Unescape(SubSeq(b, 3, Len(b)))
  ELSE Unescape(SubSeq(b, 1, cut)) \o Unescape(SubSeq(b, cut + 1, Len(b)))

\* the tokens a string literal's body b stands for, half by half
Unescape(b) == IF Len(b) <= 1 THEN b ELSE UnescapeAt(b, Cut(b, Len(b) \div 2))

\* the quote t[i] is not escaped: it closes the string literal
Closes(t, i) == t[i] = Quote /\ ~IsEscaped(t, i)

\* the position of the quote that closes the string literal whose tokens
\* start t, 0 where none does
ClosingQuote(t) ==
  IF \A i \in 1..Len(t) : ~Closes(t, i) THEN 0
  ELSE CHOOSE i \in 1..Len(t) : Closes(t, i) /\ \A j \in 1..(i - 1) : ~Closes(t, j)

\* the body b of a string literal has a backslash that escapes neither a
\* quote nor a backslash
BadEscape(b) ==
  \E i \in 1..Len(b) :
    /\ b[i] = Backslash /\ ~IsEscaped(b, i)
    /\ i = Len(b) \/ b[i + 1] \notin {Quote, Backslash}

\* the string literal of t that ends with the quote at position close
StringUpTo(t, acc, close) ==
  IF close = 0 THEN ParseFail
  ELSE IF BadEscape(SubSeq(t, 1, close - 1)) THEN ParseFail
  ELSE ParseOk(JStr(acc \o Unescape(SubSeq(t, 1, close - 1))),
               SubSeq(t, close + 1, Len(t)))

\* the tokens of a string literal up to its closing quote, unescaped, after
\* the tokens acc already read; a backslash escapes a quote or a backslash
\* and nothing else
ParseChars(t, acc) == StringUpTo(t, acc, ClosingQuote(t))

RECURSIVE ParseValue(_)
RECURSIVE ParseElems(_, _)
RECURSIVE ParseProps(_, _)

\* array elements after "[" or after a comma
ParseElems(t, acc) ==
  LET e == ParseValue(t)
      r == TrimStart(e.rest)
  IN IF ~e.ok \/ r = <<>> THEN ParseFail
     ELSE IF Head(r) = "]" THEN ParseOk(JArr(Append(acc, e.v)), Tail(r))
     ELSE IF Head(r) = "," THEN ParseElems(Tail(r), Append(acc, e.v))
     ELSE ParseFail

\* object properties after "{" or after a comma
ParseProps(t, acc) ==
  LET s == TrimStart(t)
      k == IF s # <<>> /\ Head(s) = Quote THEN ParseChars(Tail(s), <<>>) ELSE ParseFail
      c == TrimStart(k.rest)
      e == IF k.ok /\ Len(k.v.s) = 1 /\ c # <<>> /\ Head(c) = ":"
           THEN ParseValue(Tail(c)) ELSE ParseFail
      r == TrimStart(e.rest)
      o == Append(acc, <<k.v.s[1], e.v>>)
  IN IF ~e.ok \/ r = <<>> THEN ParseFail
     ELSE IF Head(r) = "}" THEN ParseOk(JObj(o), Tail(r))
     ELSE IF Head(r) = "," THEN ParseProps(Tail(r), o)
     ELSE ParseFail

\* one JSON value at the head of t
ParseValue(t) ==
  LET s == TrimStart(t)
  IN IF s = <<>> THEN ParseFail
     ELSE CASE Head(s) = "null" -> ParseOk(JNull, Tail(s))
            [] Head(s) = "true" -> ParseOk(JBool(TRUE), Tail(s))
            [] Head(s) = "false" -> ParseOk(JBool(FALSE), Tail(s))
            [] Head(s) = Quote -> ParseChars(Tail(s), <<>>)
            [] Head(s) = "[" ->
                 IF Len(s) >= 2 /\ TrimStart(Tail(s)) # <<>> /\ Head(TrimStart(Tail(s))) = "]"
                 THEN ParseOk(JArr(<<>>), Tail(TrimStart(Tail(s))))
                 ELSE ParseElems(Tail(s), <<>>)
            [] Head(s) = "{" ->
                 IF Len(s) >= 2 /\ TrimStart(Tail(s)) # <<>> /\ Head(TrimStart(Tail(s))) = "}"
                 THEN ParseOk(JObj(<<>>), Tail(TrimStart(Tail(s))))
                 ELSE ParseProps(Tail(s), <<>>)
            [] IsNumberToken(Head(s)) ->
                 ParseOk(JNum(CHOOSE n \in JsonNumbers : ToString(n) = Head(s)), Tail(s))
            [] OTHER -> ParseFail

\* the value read, where nothing but white space follows it
WholeText(r) == IF r.ok /\ TrimStart(r.rest) = <<>> THEN r ELSE ParseFail

\* JSON.parse(text): ok is FALSE where JSON.parse throws a SyntaxError
JsonParse(text) == WholeText(ParseValue(text))

(***************************************************************************)
(* The star tools (src/lib/chatbot/star-tools.ts).                          *)
(***************************************************************************)
\* rows of the stars table: the columns the search reads, and the id
Catalog ==
  << [id |-> 1, name |-> <<"S", "i", "r", "i", "u", "s">>,
      constellation |-> <<"C", "M", "a">>, description |-> <<"d", "o", "g">>],
     [id |-> 2, name |-> <<"V", "e", "g", "a">>,
      constellation |-> <<"L", "y", "r">>, description |-> <<"s", "i", "r", "e">>],
     [id |-> 3, name |-> <<"R", "i", "g", "e", "l">>,
      constellation |-> <<"O", "r", "i">>, description |-> <<"b", "l", "u", "e">>] >>

\* the lower-case form of a character
Lower(c) ==
  CASE c = "S" -> "s" [] c = "C" -> "c" [] c = "M" -> "m" [] c = "V" -> "v"
    [] c = "L" -> "l" [] c = "I" -> "i" [] c = "R" -> "r" [] c = "O" -> "o"
    [] c = "E" -> "e" [] c = "G" -> "g" [] OTHER -> c

LowerAll(s) == [i \in 1..Len(s) |-> Lower(s[i])]

RECURSIVE ILike(_, _)
\* column ILIKE pattern: % stands for any run of characters, _ for any one
\* character, every other character for itself in either case
ILike(column, pattern) ==
  IF pattern = <<>> THEN column = <<>>
  ELSE IF Head(pattern) = "%"
  THEN ILike(column, Tail(pattern)) \/ (column # <<>> /\ ILike(Tail(column), pattern))
  ELSE /\ column # <<>>
       /\ Head(pattern) = "_" \/ Lower(Head(pattern)) = Lower(Head(column))
       /\ ILike(Tail(column), Tail(pattern))

RowJson(row) ==
  JObj(<< <<"id", JNum(row.id)>>, <<"name", JStr(row.name)>>,
          <<"description", JStr(row.description)>>,
          <<"constellation", JStr(row.constellation)>> >>)

RECURSIVE SelectRows(_, _, _)
\* the rows of the table, in table order, that match the pattern in one of the
\* three columns, at most k of them
SelectRows(rows, pattern, k) ==
  IF rows = <<>> \/ k <= 0 THEN <<>>
  ELSE IF \/ ILike(Head(rows).name, pattern)
          \/ ILike(Head(rows).constellation, pattern)
          \/ ILike(Head(rows).description, pattern)
       THEN <<RowJson(Head(rows))>> \o SelectRows(Tail(rows), pattern, k - 1)
       ELSE SelectRows(Tail(rows), pattern, k)

\* Math.min(limit, 10): a clamp without its lower end
ClampAbove(limit) == IF limit.n >= 10 * limit.d THEN JNum(10) ELSE limit

\* Math.min(Math.max(1, limit), 10) of a number n/d
ClampLimit(limit) ==
  IF limit.n <= limit.d THEN JNum(1)
  ELSE IF limit.n >= 10 * limit.d THEN JNum(10)
  ELSE limit

\* const { limit = 5 } = params and searchLimit
SearchLimit(params) ==
  LET limit == IF Get(params, "limit") = Undefined THEN JNum(5) ELSE Get(params, "limit")
  IN IF TypeOf(limit) = "number" THEN ClampLimit(limit) ELSE JNum(5)

\* `%${query.trim()}%`
SearchPattern(query) == <<"%">> \o Trim(query.s) \o <<"%">>

SearchFailure(message) ==
  JObj(<< <<"success", JBool(FALSE)>>, <<"stars", JArr(<<>>)>>,
          <<"count", JNum(0)>>, <<"message", JStr(message)>> >>)

\* createServerClient() is called
CreateClient == [op |-> "createServerClient"]

\* supabase.from('stars').select('*').or(...).limit(searchLimit) is awaited
SelectStars(pattern, searchLimit) ==
  [op |-> "select", pattern |-> pattern, limit |-> searchLimit]

\* a run of a tool: the value execute returns and what it asked of the database
Ran(result, database) == [result |-> result, database |-> database]

\* a thrown value: an Error with a message, or something that is no Error
Thrown(isError, message) == [isError |-> isError, message |-> message]

\* an exception on its way out of a function
Raised(e) == [j |-> "thrown", e |-> e]

\* the try block of searchStarsTool.execute(params) over the table rows; db is
\* what the database does with the query: "ok", "error" (the query returns an
\* error) or "throw" (no client can be made)
SearchTry(params, db, rows) ==
  LET query == Get(params, "query")
      searchLimit == SearchLimit(params)
      select == SelectStars(SearchPattern(query), searchLimit)
      stars == SelectRows(rows, SearchPattern(query), searchLimit.n \div searchLimit.d)
  IN IF query = Undefined \/ query = JNull
     THEN Ran(SearchFailure(<<"Invalid parameter: query is required">>), <<>>)
     ELSE IF TypeOf(query) # "string"
     THEN Ran(SearchFailure(<<"Invalid parameter: query must be a string, got ",
                              TypeOf(query)>>), <<>>)
     ELSE IF Trim(query.s) = <<>>
     THEN Ran(SearchFailure(<<"Invalid parameter: query must be a non-empty string">>), <<>>)
     ELSE IF db = "throw"
     THEN Ran(Raised(Thrown(TRUE, <<"Missing Supabase configuration: ",
                                    "NEXT_PUBLIC_SUPABASE_URL">>)),
              <<CreateClient>>)
     ELSE IF db = "error"
     THEN Ran(SearchFailure(<<"Unable to connect to star database">>),
              <<CreateClient, select>>)
     ELSE IF Len(stars) = 0
     THEN Ran(JObj(<< <<"success", JBool(TRUE)>>, <<"stars", JArr(<<>>)>>,
                      <<"count", JNum(0)>>,
                      <<"message", JStr(<<"No stars found matching your query">>)>> >>),
              <<CreateClient, select>>)
     ELSE Ran(JObj(<< <<"success", JBool(TRUE)>>, <<"stars", JArr(stars)>>,
                      <<"count", JNum(Len(stars))>>,
                      <<"message", JStr(<<"Found ", ToString(Len(stars))>>
                                        \o (IF Len(stars) > 1 THEN <<" stars">>
                                                               ELSE <<" star">>)
                                        \o <<" matching your query">>)>> >>),
              <<CreateClient, select>>)

\* a run that lets the exception out
SearchRethrow(run) == run

\* the catch block of searchStarsTool.execute
SearchCatch(run) ==
  IF run.result.j = "thrown"
  THEN Ran(SearchFailure(IF run.result.e.isError THEN run.result.e.message
                         ELSE <<"Failed to search stars">>),
           run.database)
  ELSE run

\* searchStarsTool.execute(params): what it returns and what it asked of the database
SearchRun(params, db, rows) == SearchCatch(SearchTry(params, db, rows))

\* the value searchStarsTool.execute(params) resolves to, over the stars table
searchStarsTool(params, db) == SearchRun(params, db, Catalog).result

NavigationFailure(error) ==
  JObj(<< <<"success", JBool(FALSE)>>, <<"data", JNull>>, <<"error", JStr(error)>> >>)

\* a check that lets fractions through
IsNotPositive(starId) == TypeOf(starId) # "number" \/ starId.n <= 0

\* typeof starId !== 'number' || starId <= 0 || !Number.isInteger(starId)
IsInvalidStarId(starId) ==
  TypeOf(starId) # "number" \/ starId.n <= 0 \/ starId.n % starId.d # 0

\* navigateToPageTool.execute(params)
navigateToPageTool(params) ==
  LET destination == Get(params, "destination")
      starId == Get(params, "starId")
  IN IF destination # JStr(<<"star">>) /\ destination # JStr(<<"homepage">>)
     THEN NavigationFailure(<<"Invalid destination. Must be ", Quote, "star", Quote,
                              " or ", Quote, "homepage", Quote>>)
     ELSE IF destination = JStr(<<"homepage">>)
     THEN JObj(<< <<"success", JBool(TRUE)>>, <<"action", JStr(<<"navigate">>)>>,
                  <<"destination", JStr(<<"homepage">>)>>, <<"url", JStr(<<"/">>)>>,
                  <<"message", JStr(<<"Navigating to homepage">>)>> >>)
     ELSE IF starId = Undefined \/ starId = JNull
     THEN NavigationFailure(<<"Star ID required for star navigation">>)
     ELSE IF IsInvalidStarId(starId)
     THEN NavigationFailure(<<"Invalid star ID. Must be a positive integer">>)
     ELSE JObj(<< <<"success", JBool(TRUE)>>, <<"action", JStr(<<"navigate">>)>>,
                  <<"destination", JStr(<<"star">>)>>,
                  <<"url", JStr(<<"/star/", ToString(starId.n \div starId.d)>>)>>,
                  <<"message", JStr(<<"Navigating to star detail page">>)>> >>)

\* the names of starTools, in registry order
starTools == <<"search_stars", "navigate_to_page">>

\* toolDef.execute(input) of the tool registered under name
Execute(name, input, db) ==
  IF name = "search_stars" THEN searchStarsTool(input, db) ELSE navigateToPageTool(input)

(***************************************************************************)
(* The chat route (src/app/api/chat/route.ts): values.                      *)
(***************************************************************************)
\* the requests in flight at the same time
Requests == {"r1", "r2"}

\* a value used in a condition: false for undefined, null and the empty string
Truthy(v) ==
  CASE v.j = "undefined" -> FALSE
    [] v.j = "null" -> FALSE
    [] v.j = "bool" -> v.b
    [] v.j = "num" -> v.n # 0
    [] v.j = "str" -> v.s # <<>>
    [] OTHER -> TRUE

SystemMessage(content) ==
  [type |-> "system", content |-> content, tool_calls |-> <<>>, tool_call_id |-> ""]
HumanMessage(content) ==
  [type |-> "human", content |-> content, tool_calls |-> <<>>, tool_call_id |-> ""]
AIMessage(content, tool_calls) ==
  [type |-> "ai", content |-> content, tool_calls |-> tool_calls, tool_call_id |-> ""]
\* the plain {role: 'tool', content, tool_call_id} object pushed onto messages
ToolResultMessage(content, tool_call_id) ==
  [type |-> "tool", content |-> content, tool_calls |-> <<>>, tool_call_id |-> tool_call_id]

\* error instanceof Error ? error.message : 'Unknown error'
ErrorMessageOf(e) == IF e.isError THEN e.message ELSE <<"Unknown error">>

NoHttp == [status |-> 0, contentType |-> "", body |-> <<>>]

\* NextResponse.json({ error }, { status: 500 })
ErrorResponse(message) ==
  [status |-> 500, contentType |-> "application/json",
   body |-> Stringify(JObj(<< <<"error", JStr(message)>> >>))]

\* an outer catch that hides the exception's message
CatchAllSanitized(e) == ErrorResponse(<<"Internal server error">>)

\* the outer catch of POST
CatchAll(e) == ErrorResponse(ErrorMessageOf(e))

\* a stream that enqueues the content as it is
StreamTextNoFallback(response) == response.content

\* the text enqueued on the response stream
StreamText(response) ==
  IF response.content # <<>> THEN response.content ELSE <<"I processed your request.">>

\* new Response(readableStream, { headers }): the stream's chunks, then close
StreamResponse(response) ==
  [status |-> 200, contentType |-> "text/plain; charset=utf-8",
   body |-> StreamText(response)]

\* a route that only checks that the variable is set
KeyUndefined(key) == key = Undefined

\* !apiKey
KeyMissing(key) == ~Truthy(key)

RECURSIVE HistoryMessages(_)
\* the loop over history: user, assistant and system entries become messages
HistoryMessages(history) ==
  IF history = <<>> THEN <<>>
  ELSE (CASE Head(history).role = "user" -> <<HumanMessage(Head(history).content)>>
          [] Head(history).role = "assistant" -> <<AIMessage(Head(history).content, <<>>)>>
          [] Head(history).role = "system" -> <<SystemMessage(Head(history).content)>>
          [] OTHER -> <<>>)
       \o HistoryMessages(Tail(history))

\* a route that pushes the system prompt whenever the body has one, and the
\* current message before the history
BuildMessagesCurrentFirst(b) ==
  (IF Truthy(b.systemPrompt) THEN <<SystemMessage(b.systemPrompt.s)>> ELSE <<>>)
  \o <<HumanMessage(b.message)>>
  \o HistoryMessages(b.history)

\* the messages array built from the request body
BuildMessages(b) ==
  (IF Truthy(b.systemPrompt) THEN <<SystemMessage(b.systemPrompt.s)>> ELSE <<>>)
  \o HistoryMessages(b.history)
  \o <<HumanMessage(b.message)>>

\* a route that also asks the model again when it answered with no text
HasToolCallsOrNoText(response) == response.tool_calls # <<>> \/ response.content = <<>>

\* response.tool_calls && response.tool_calls.length > 0
HasToolCalls(response) == response.tool_calls # <<>>

\* langchainTools.find(t => t.name === toolCall.name) finds a tool
IsRegistered(name) == \E i \in 1..Len(starTools) : starTools[i] = name

\* a wrapper that reports the thrown message without the prefix
ToolFailureBare(e) ==
  Stringify(JObj(<< <<"success", JBool(FALSE)>>, <<"error", JStr(ErrorMessageOf(e))>> >>))

ToolFailureContent(e) ==
  Stringify(JObj(<< <<"success", JBool(FALSE)>>,
                    <<"error", JStr(<<"Tool execution failed: ">> \o ErrorMessageOf(e))>> >>))

\* the func of a langchainTools entry: the tool's result as JSON text, or the
\* failure text when execute throws; fault is what the tool body does
ToolFunc(name, input, fault, db) ==
  IF fault.throws THEN ToolFailureContent(fault.thrown)
  ELSE Stringify(Execute(name, input, db))

\* a route that reports an unknown tool as a failed execution
NotFoundAsFailure(name) ==
  Stringify(JObj(<< <<"success", JBool(FALSE)>>,
                    <<"error", JStr(<<"Tool execution failed: ", name>>)>> >>))

NotFoundContent(name) ==
  Stringify(JObj(<< <<"success", JBool(FALSE)>>,
                    <<"error", JStr(<<"Tool ", Quote, name, Quote, " not found">>)>> >>))

ToolMessage(content, toolCall) ==
  [role |-> "tool", content |-> content, tool_call_id |-> toolCall.id,
   toolName |-> toolCall.name]

\* a route that puts each tool message in front of the earlier ones
UnshiftToolMessage(toolMessages, message) == <<message>> \o toolMessages

\* toolMessages.push(message)
PushToolMessage(toolMessages, message) == Append(toolMessages, message)

RECURSIVE SkipUnknown(_, _, _)
\* the tool loop from call i up to its next await: calls that name no registered
\* tool get their not-found message at once; at is the call to execute next
SkipUnknown(calls, i, toolMessages) ==
  IF i > Len(calls) \/ IsRegistered(calls[i].name)
  THEN [toolMessages |-> toolMessages, at |-> i]
  ELSE SkipUnknown(calls, i + 1,
         PushToolMessage(toolMessages,
                         ToolMessage(NotFoundContent(calls[i].name), calls[i])))

\* messages after the assistant's tool-call message and the tool results are pushed
WithToolResults(messages, response, toolMessages) ==
  messages
  \o <<AIMessage(response.content, response.tool_calls)>>
  \o [k \in 1..Len(toolMessages) |->
        ToolResultMessage(toolMessages[k].content, toolMessages[k].tool_call_id)]

\* a route that takes every result of the navigate tool for a navigation
IsNavigateTool(message) == message.toolName = "navigate_to_page"

\* a tool message whose content parses to an object with action 'navigate'
IsNavigation(message) ==
  LET parsed == JsonParse(message.content)
  IN /\ parsed.ok
     /\ parsed.v.j = "obj"
     /\ Get(parsed.v, "action") = JStr(<<"navigate">>)

\* toolMessages.find(...): the index of the first navigation result, 0 if none
NavigationResult(toolMessages) ==
  IF \E k \in 1..Len(toolMessages) : IsNavigation(toolMessages[k])
  THEN CHOOSE k \in 1..Len(toolMessages) :
         /\ IsNavigation(toolMessages[k])
         /\ \A m \in 1..(k - 1) : ~IsNavigation(toolMessages[m])
  ELSE 0

\* !response.content || response.content.toString().trim() === ''
ContentIsEmpty(response) == response.content = <<>> \/ Trim(response.content) = <<>>

\* a route that answers empty content with the marker and the payload of the
\* first tool result
WithPayload(response, toolMessages) ==
  IF ~ContentIsEmpty(response) \/ toolMessages = <<>> THEN response
  ELSE [response EXCEPT !.content = <<"[Tool: navigate_to_page]", " ">>
                                    \o toolMessages[1].content]

\* the second response, with the fallback text put in place of empty content
WithFallback(response, toolMessages) ==
  IF ~ContentIsEmpty(response) THEN response
  ELSE IF NavigationResult(toolMessages) # 0
  THEN LET navData == JsonParse(toolMessages[NavigationResult(toolMessages)].content).v
           message == IF Truthy(Get(navData, "message")) THEN Get(navData, "message").s ELSE <<>>
       IN [response EXCEPT !.content = <<"I'll take you to that page now. ">> \o message]
  ELSE [response EXCEPT !.content =
          <<"I found the information you requested. Let me know if you need anything else!">>]

(***************************************************************************)
(* The environment of the route: what a client posts, what the hosted      *)
(* model answers, what a tool body and the database do.                     *)
(***************************************************************************)
SeqsUpTo(S, n) == UNION {[1..k -> S] : k \in 0..n}

HistoryEntries ==
  { [role |-> "user", content |-> <<"tell me about Sirius">>],
    [role |-> "assistant", content |-> <<"Sirius is bright.">>],
    [role |-> "system", content |-> <<"Be brief.">>],
    [role |-> "tool", content |-> <<"{", "}">>] }

SystemPrompts == {Undefined, JStr(<<>>), JStr(<<"You are a star salesman.">>)}

\* a body req.json() reads: {message, history, systemPrompt}
Body(message, history, systemPrompt) ==
  [readable |-> TRUE, iterable |-> TRUE, message |-> message, history |-> history,
   systemPrompt |-> systemPrompt]

\* a body that is no JSON, and a JSON body without a history array
UnreadableBody ==
  [readable |-> FALSE, iterable |-> FALSE, message |-> <<>>, history |-> <<>>,
   systemPrompt |-> Undefined]
NoHistoryBody ==
  [readable |-> TRUE, iterable |-> FALSE, message |-> <<"tell me about Sirius">>,
   history |-> <<>>, systemPrompt |-> Undefined]

Bodies ==
  { Body(<<"tell me about Sirius">>, h, p) :
      h \in SeqsUpTo(HistoryEntries, MaxHistory), p \in SystemPrompts }
  \cup {UnreadableBody, NoHistoryBody}

\* the first turn of a chat, a later turn, and the two bodies the route rejects
TurnBodies ==
  { Body(<<"tell me about Sirius">>, <<>>, Undefined),
    Body(<<"take me there">>,
         << [role |-> "user", content |-> <<"tell me about Sirius">>],
            [role |-> "assistant", content |-> <<"Sirius is bright.">>] >>,
         JStr(<<"You are a star salesman.">>)),
    UnreadableBody, NoHistoryBody }

\* what the model may ask for: a name and the arguments
ToolCallPool ==
  { [name |-> "navigate_to_page",
     args |-> JObj(<< <<"destination", JStr(<<"homepage">>)>> >>)],
    [name |-> "navigate_to_page", args |-> Undefined],
    [name |-> "search_stars", args |-> JObj(<< <<"query", JStr(<<"v", "E", "g">>)>> >>)],
    [name |-> "get_weather", args |-> JObj(<<>>)] }

\* the ids the model gives the tool calls of one response, by position
CallIds == <<"call_c", "call_a", "call_d", "call_b">>

ToolCalls(requested) ==
  [i \in 1..Len(requested) |->
     [id |-> CallIds[i], name |-> requested[i].name, args |-> requested[i].args]]

ToolCallLists == {ToolCalls(q) : q \in SeqsUpTo(ToolCallPool, MaxToolCalls)}

Contents == {<<>>, <<" ", "\n">>, <<"Sirius is the brightest star.">>}

ModelResponse(content, tool_calls) == [content |-> content, tool_calls |-> tool_calls]
NoResponse == ModelResponse(<<>>, <<>>)

Returned(response) == [ok |-> TRUE, response |-> response, thrown |-> Thrown(FALSE, <<>>)]
Failed(e) == [ok |-> FALSE, response |-> NoResponse, thrown |-> e]

\* how modelWithTools.invoke may reject
ModelFailures == {Failed(Thrown(TRUE, <<"Connection error.">>)), Failed(Thrown(FALSE, <<>>))}

\* what the first modelWithTools.invoke resolves to, or rejects with
ModelOutcomes ==
  {Returned(ModelResponse(c, t)) : c \in Contents, t \in ToolCallLists} \cup ModelFailures

\* the same for the second invocation, whose tool calls the route never reads:
\* none, or one
FinalOutcomes ==
  { Returned(ModelResponse(c, t)) :
      c \in Contents,
      t \in {<<>>, ToolCalls(<<[name |-> "search_stars", args |-> JObj(<<>>)]>>)} }
  \cup ModelFailures

\* what a tool body does: it returns, or it throws an Error or another value
NoFault == [throws |-> FALSE, thrown |-> Thrown(FALSE, <<>>)]
Faults ==
  { NoFault,
    [throws |-> TRUE, thrown |-> Thrown(TRUE, <<"boom">>)],
    [throws |-> TRUE, thrown |-> Thrown(FALSE, <<>>)] }

DbOutcomes == {"ok", "error", "throw"}

\* process.env.OPENAI_API_KEY
ApiKeys == {Undefined, JStr(<<>>), JStr(<<"sk-test">>)}

(***************************************************************************)
(* The chat route: state and steps.                                         *)
(***************************************************************************)
VARIABLES
  apiKey,             \* process.env.OPENAI_API_KEY
  pc,                 \* where each request's handler waits
  body,               \* the body of each request
  messages,           \* the messages array of each request
  response,           \* the last model response of each request
  originalToolCalls,  \* the tool calls of the first response
  toolMessages,       \* the toolMessages array of each request
  running,            \* the index of the tool call being awaited, 0 if none
  invocations,        \* how many times the model was invoked for the request
  answers,            \* the responses the model returned to the request, as returned
  execLog,            \* the tool executions of the request, as ToolEvent records
  caught,             \* the exception the outer catch got, if any
  http,               \* the HTTP response of each request
  toolRun,            \* the last direct execution of a tool: input, result, database calls
  config,             \* the config prop of ChatbotProvider
  localStorage,       \* the item 'chatbot-state' of localStorage
  provider,           \* the state of ChatbotProvider
  saveTimeoutRef,     \* saveTimeoutRef.current: a timeout handle, 0 for null
  timeouts,           \* the timeouts set and neither fired nor cleared
  pendingNavigation,  \* the pendingNavigation state of the mounted ChatbotInterface
  sending,            \* the handleSendMessage call in flight
  received,           \* what the last handleSendMessage call got from the backend
  router,             \* the urls router.push was called with
  starPage,           \* the last render of /star/[id]: its inputs and what was shown
  gallery             \* StarGallery and its NavigationArrows: state, refs, timers

\* the state outside the chat route
\* the state of the chat client
clientVars == <<config, localStorage, provider, saveTimeoutRef, timeouts,
                pendingNavigation, sending, received, router>>

elsewhere == <<toolRun, clientVars, starPage, gallery>>


\* the state of the chat route
routeVars == <<apiKey, pc, body, messages, response, originalToolCalls, toolMessages,
               running, invocations, answers, execLog, caught, http>>

\* the state outside the chat client
elsewhereOfClient == <<routeVars, toolRun, starPage, gallery>>

vars == <<routeVars, elsewhere>>

\* the handler's locals for one request
Local(r) ==
  [pc |-> pc[r], body |-> body[r], messages |-> messages[r], response |-> response[r],
   originalToolCalls |-> originalToolCalls[r], toolMessages |-> toolMessages[r],
   running |-> running[r], invocations |-> invocations[r], answers |-> answers[r],
   execLog |-> execLog[r],
   caught |-> caught[r], http |-> http[r]]

Fresh ==
  [pc |-> "idle", body |-> UnreadableBody, messages |-> <<>>, response |-> NoResponse,
   originalToolCalls |-> <<>>, toolMessages |-> <<>>, running |-> 0, invocations |-> 0,
   answers |-> <<>>, execLog |-> <<>>, caught |-> <<>>, http |-> NoHttp]

\* a route whose toolMessages array is one module-level array
CommitSharedToolMessages(r, l) ==
  /\ pc' = [pc EXCEPT ![r] = l.pc]
  /\ body' = [body EXCEPT ![r] = l.body]
  /\ messages' = [messages EXCEPT ![r] = l.messages]
  /\ response' = [response EXCEPT ![r] = l.response]
  /\ originalToolCalls' = [originalToolCalls EXCEPT ![r] = l.originalToolCalls]
  /\ toolMessages' = [q \in Requests |-> l.toolMessages]
  /\ running' = [running EXCEPT ![r] = l.running]
  /\ invocations' = [invocations EXCEPT ![r] = l.invocations]
  /\ answers' = [answers EXCEPT ![r] = l.answers]
  /\ execLog' = [execLog EXCEPT ![r] = l.execLog]
  /\ caught' = [caught EXCEPT ![r] = l.caught]
  /\ http' = [http EXCEPT ![r] = l.http]
  /\ UNCHANGED <<apiKey, elsewhere>>

\* each request has its own locals: a step of request r writes only r's
Commit(r, l) ==
  /\ pc' = [pc EXCEPT ![r] = l.pc]
  /\ body' = [body EXCEPT ![r] = l.body]
  /\ messages' = [messages EXCEPT ![r] = l.messages]
  /\ response' = [response EXCEPT ![r] = l.response]
  /\ originalToolCalls' = [originalToolCalls EXCEPT ![r] = l.originalToolCalls]
  /\ toolMessages' = [toolMessages EXCEPT ![r] = l.toolMessages]
  /\ running' = [running EXCEPT ![r] = l.running]
  /\ invocations' = [invocations EXCEPT ![r] = l.invocations]
  /\ answers' = [answers EXCEPT ![r] = l.answers]
  /\ execLog' = [execLog EXCEPT ![r] = l.execLog]
  /\ caught' = [caught EXCEPT ![r] = l.caught]
  /\ http' = [http EXCEPT ![r] = l.http]
  /\ UNCHANGED <<apiKey, elsewhere>>

\* an event of a tool execution: tool.func(args) is called for call number call
\* ("start"), it resolves ("return"), or the tool body threw thrown ("throw")
ToolEvent(event, call, thrown) == [event |-> event, call |-> call, thrown |-> thrown]

\* the outer catch: the request ends with the 500 response
Rejected(l, e) == [l EXCEPT !.pc = "done", !.caught = <<e>>, !.http = CatchAll(e)]

\* the response stream is made and returned
Responded(l) == [l EXCEPT !.pc = "done", !.http = StreamResponse(l.response)]

\* toolCall.args || {}
ArgsOrEmpty(args) == IF Truthy(args) THEN args ELSE JObj(<<>>)

\* the tool loop runs on from call i: to the next tool execution, or past the
\* last call to the second model invocation
ToolLoop(l, i) ==
  LET calls == l.response.tool_calls
      skip == SkipUnknown(calls, i, l.toolMessages)
  IN IF skip.at <= Len(calls)
     THEN [l EXCEPT !.pc = "tool", !.toolMessages = skip.toolMessages,
                    !.running = skip.at,
                    !.execLog = Append(@, ToolEvent("start", skip.at, NoFault.thrown))]
     ELSE [l EXCEPT !.pc = "invoke2", !.toolMessages = skip.toolMessages,
                    !.running = 0,
                    !.messages = WithToolResults(@, l.response, skip.toolMessages),
                    !.invocations = @ + 1]

\* POST is called and awaits req.json()
Arrive(r, b) ==
  /\ pc[r] = "idle"
  /\ Commit(r, [Local(r) EXCEPT !.pc = "json", !.body = b])

\* from the body read to the first model invocation
AfterBody(l, key) ==
  IF ~l.body.readable
  THEN Rejected(l, Thrown(TRUE, <<"Unexpected end of JSON input">>))
  ELSE IF KeyMissing(key)
  THEN [l EXCEPT !.pc = "done", !.http = ErrorResponse(<<"OpenAI API key not configured">>)]
  ELSE IF ~l.body.iterable
  THEN Rejected(l, Thrown(TRUE, <<"history is not iterable">>))
  ELSE [l EXCEPT !.pc = "invoke1", !.messages = BuildMessages(l.body),
                 !.invocations = @ + 1]

ReadBody(r) ==
  /\ pc[r] = "json"
  /\ Commit(r, AfterBody(Local(r), apiKey))

\* from the first model response to the next await, or to the response
AfterFirstResponse(l, out) ==
  IF ~out.ok THEN Rejected(l, out.thrown)
  ELSE LET got == [l EXCEPT !.response = out.response,
                            !.answers = Append(@, out.response),
                            !.originalToolCalls = out.response.tool_calls]
       IN IF HasToolCalls(out.response) THEN ToolLoop(got, 1) ELSE Responded(got)

FirstResponse(r, out) ==
  /\ pc[r] = "invoke1"
  /\ Commit(r, AfterFirstResponse(Local(r), out))

\* from the end of a tool execution to the next await
AfterTool(l, fault, db) ==
  LET toolCall == l.response.tool_calls[l.running]
      toolResult == ToolFunc(toolCall.name, ArgsOrEmpty(toolCall.args), fault, db)
      pushed == [l EXCEPT !.toolMessages =
                            PushToolMessage(@, ToolMessage(toolResult, toolCall)),
                          !.execLog = Append(@, ToolEvent(IF fault.throws THEN "throw"
                                                                         ELSE "return",
                                                          l.running, fault.thrown))]
  IN ToolLoop(pushed, l.running + 1)

ToolReturns(r, fault, db) ==
  /\ pc[r] = "tool"
  /\ Commit(r, AfterTool(Local(r), fault, db))

\* from the second model response to the response
AfterSecondResponse(l, out) ==
  IF ~out.ok THEN Rejected(l, out.thrown)
  ELSE Responded([l EXCEPT !.response = WithFallback(out.response, l.toolMessages),
                           !.answers = Append(@, out.response)])

SecondResponse(r, out) ==
  /\ pc[r] = "invoke2"
  /\ Commit(r, AfterSecondResponse(Local(r), out))

\* one step of request r, its inputs drawn from the sets of env
Serve(r, env) ==
  \/ \E b \in env.bodies : Arrive(r, b)
  \/ ReadBody(r)
  \/ \E out \in env.first : FirstResponse(r, out)
  \/ \E fault \in env.faults, db \in env.dbs : ToolReturns(r, fault, db)
  \/ \E out \in env.second : SecondResponse(r, out)

(***************************************************************************)
(* Properties of the chat route.                                            *)
(***************************************************************************)
\* the events of a request's tool executions that start a call
Starts(log) == {k \in 1..Len(log) : log[k].event = "start"}

\* C1: a request invokes the model at most twice: once when the first response
\* carries no tool calls, twice when it carries at least one, and never a third
\* time, whatever the second response asks for.
C1_AtMostTwoInvocations ==
  \A r \in Requests :
    /\ invocations[r] <= 2
    /\ pc[r] \in {"idle", "json"} => invocations[r] = 0
    /\ pc[r] = "invoke1" => invocations[r] = 1 /\ answers[r] = <<>>
    /\ pc[r] = "tool" => invocations[r] = 1 /\ Len(answers[r]) = 1
    /\ pc[r] = "invoke2" => invocations[r] = 2 /\ Len(answers[r]) = 1
    /\ Len(answers[r]) >= 1 /\ answers[r][1].tool_calls = <<>> =>
         pc[r] = "done" /\ invocations[r] = 1
    /\ Len(answers[r]) >= 1 /\ answers[r][1].tool_calls # <<>> /\ pc[r] = "done" =>
         invocations[r] = 2
    /\ Len(answers[r]) <= invocations[r]

\* a request answered after a second response that asked for more tool calls
C1_Witness ==
  \E r \in Requests :
    /\ pc[r] = "done" /\ http[r].status = 200
    /\ Len(answers[r]) = 2 /\ answers[r][2].tool_calls # <<>>
    /\ invocations[r] = 2

\* C2: the tool calls of the first response run one at a time in the order
\* listed, each started after the one before it has ended; each call gets one
\* tool message with its tool_call_id, and the messages follow the assistant's
\* tool-call message in the model input in the order of the calls.
C2_SequentialToolCalls ==
  \A r \in Requests :
    LET calls == originalToolCalls[r]
        tm == toolMessages[r]
        log == execLog[r]
        n == Len(calls)
        m == Len(messages[r])
    IN /\ Len(tm) <= n
       /\ \A k \in 1..Len(tm) :
            /\ tm[k].role = "tool"
            /\ tm[k].tool_call_id = calls[k].id
            /\ tm[k].toolName = calls[k].name
       /\ \A k \in 1..Len(log) :
            /\ k % 2 = 1 => log[k].event = "start"
            /\ k % 2 = 0 => log[k].event \in {"return", "throw"} /\ log[k].call = log[k - 1].call
            /\ k > 2 /\ k % 2 = 1 => log[k].call > log[k - 2].call
            /\ log[k].call \in 1..n /\ IsRegistered(calls[log[k].call].name)
       /\ Len(log) % 2 = 1 <=> pc[r] = "tool"
       /\ pc[r] = "tool" =>
            /\ running[r] = log[Len(log)].call
            /\ Len(tm) = running[r] - 1
       /\ \A k \in 1..Len(tm) :
            IsRegistered(calls[k].name) => \E e \in Starts(log) : log[e].call = k
       /\ pc[r] = "invoke2" =>
            /\ Len(tm) = n /\ n > 0 /\ m > n + 1
            /\ messages[r][m - n].type = "ai"
            /\ messages[r][m - n].tool_calls = calls
            /\ \A k \in 1..n :
                 /\ messages[r][m - n + k].type = "tool"
                 /\ messages[r][m - n + k].tool_call_id = calls[k].id
                 /\ messages[r][m - n + k].content = tm[k].content
            /\ \A k \in 1..(m - n - 1) : messages[r][k].type \in {"system", "human", "ai"}
            /\ messages[r][m - n - 1].type = "human"

\* two registered tools were executed, one after the other, and their results
\* are in the input of the second invocation
C2_Witness ==
  \E r \in Requests :
    /\ pc[r] = "invoke2"
    /\ Len(originalToolCalls[r]) = 2
    /\ [k \in 1..Len(execLog[r]) |-> <<execLog[r][k].event, execLog[r][k].call>>]
         = << <<"start", 1>>, <<"return", 1>>, <<"start", 2>>, <<"return", 2>> >>
    /\ toolMessages[r][1].content # toolMessages[r][2].content

\* C3: a tool call that names no registered tool gets a tool message with
\* success false and the not-found error; no tool is executed for it, nothing is
\* thrown, the calls after it are handled and the second invocation is made.
C3_UnknownToolIsReported ==
  \A r \in Requests :
    LET calls == originalToolCalls[r]
        tm == toolMessages[r]
    IN /\ \A k \in 1..Len(tm) :
            ~(calls[k].name \in {"search_stars", "navigate_to_page"}) =>
              LET parsed == JsonParse(tm[k].content)
              IN /\ parsed.ok
                 /\ Get(parsed.v, "success") = JBool(FALSE)
                 /\ Get(parsed.v, "error")
                      = JStr(<<"Tool ", Quote, calls[k].name, Quote, " not found">>)
                 /\ \A e \in 1..Len(execLog[r]) : execLog[r][e].call # k
       /\ pc[r] = "tool" =>
            /\ running[r] = Len(tm) + 1
            /\ calls[running[r]].name \in {"search_stars", "navigate_to_page"}
       /\ calls # <<>> /\ pc[r] \in {"invoke2", "done"} =>
            /\ Len(tm) = Len(calls)
            /\ invocations[r] = 2
       /\ calls # <<>> /\ caught[r] # <<>> => pc[r] = "done" /\ Len(answers[r]) = 1

\* an unknown tool came first, the registered tool after it was still executed,
\* and the model was invoked again
C3_Witness ==
  \E r \in Requests :
    /\ Len(originalToolCalls[r]) = 2
    /\ originalToolCalls[r][1].name = "get_weather"
    /\ [k \in 1..Len(execLog[r]) |-> <<execLog[r][k].event, execLog[r][k].call>>]
         = << <<"start", 2>>, <<"return", 2>> >>
    /\ pc[r] = "done" /\ http[r].status = 200 /\ invocations[r] = 2

\* the value of the error property of a JSON error text, undefined if there is none
ErrorOf(text) ==
  LET parsed == JsonParse(text)
  IN IF parsed.ok /\ parsed.v.j = "obj" THEN Get(parsed.v, "error") ELSE Undefined

\* the calls of a request whose tool body threw
Throws(log) == {k \in 1..Len(log) : log[k].event = "throw"}

\* C4 as stated: when a tool's execute function throws, the request still ends
\* with HTTP status 200, not 500.
C4_ThrowingToolEndsWith200 ==
  \A r \in Requests :
    pc[r] = "done" /\ Throws(execLog[r]) # {} => http[r].status = 200

\* C4, amended: a throw of a tool's execute function is caught for that call and
\* becomes the tool message {success: false, error: 'Tool execution failed:
\* <message>'}, which is in the input of the second invocation like any tool
\* result; the calls after it are handled and the model is invoked again; the
\* status is 200 when that invocation returns, and 500 only when it fails.
C4_ThrowingToolIsReported ==
  \A r \in Requests :
    LET calls == originalToolCalls[r]
        tm == toolMessages[r]
        log == execLog[r]
        n == Len(calls)
        m == Len(messages[r])
    IN /\ \A e \in Throws(log) :
            /\ Len(tm) >= log[e].call
            /\ tm[log[e].call].tool_call_id = calls[log[e].call].id
            /\ LET parsed == JsonParse(tm[log[e].call].content)
               IN /\ parsed.ok
                  /\ Get(parsed.v, "success") = JBool(FALSE)
                  /\ Get(parsed.v, "error")
                       = JStr(<<"Tool execution failed: ">>
                              \o (IF log[e].thrown.isError THEN log[e].thrown.message
                                  ELSE <<"Unknown error">>))
            /\ pc[r] = "invoke2" =>
                 messages[r][m - n + log[e].call].content = tm[log[e].call].content
       /\ Throws(log) # {} /\ pc[r] \in {"invoke2", "done"} =>
            /\ Len(tm) = n
            /\ invocations[r] = 2
       /\ Throws(log) # {} /\ pc[r] = "done" =>
            /\ Len(answers[r]) = 2 => http[r].status = 200
            /\ Len(answers[r]) # 2 => http[r].status = 500 /\ Len(answers[r]) = 1

\* the first of two tools threw, the second was still executed, and the request
\* was answered with status 200
C4_Witness ==
  \E r \in Requests :
    /\ Len(originalToolCalls[r]) = 2
    /\ Len(execLog[r]) = 4
    /\ execLog[r][2].event = "throw" /\ execLog[r][2].thrown.isError
    /\ execLog[r][4].event = "return"
    /\ pc[r] = "done" /\ http[r].status = 200

\* the text has no token other than whitespace
IsBlank(text) == \A k \in 1..Len(text) : text[k] \in {" ", "\n", "\t"}

\* the tool messages of a request that are JSON objects with action 'navigate'
Navigations(tm) ==
  {k \in 1..Len(tm) :
     LET parsed == JsonParse(tm[k].content)
     IN parsed.ok /\ parsed.v.j = "obj" /\ Get(parsed.v, "action") = JStr(<<"navigate">>)}

\* C5: after tool calls, when the second response has empty or whitespace-only
\* content, the reply is the navigation fallback exactly when a tool message is
\* JSON with action 'navigate', the generic fallback otherwise; the model is not
\* invoked a third time.
C5_FallbackText ==
  \A r \in Requests :
    pc[r] = "done" /\ Len(answers[r]) = 2 /\ IsBlank(answers[r][2].content) =>
      /\ http[r].status = 200
      /\ invocations[r] = 2
      /\ Navigations(toolMessages[r]) # {} <=>
           http[r].body[1] = "I'll take you to that page now. "
      /\ Navigations(toolMessages[r]) # {} =>
           LET first == CHOOSE k \in Navigations(toolMessages[r]) :
                          \A j \in Navigations(toolMessages[r]) : k <= j
               message == Get(JsonParse(toolMessages[r][first].content).v, "message")
           IN http[r].body = <<"I'll take you to that page now. ">> \o message.s
      /\ Navigations(toolMessages[r]) = {} =>
           http[r].body
             = <<"I found the information you requested. Let me know if you need anything else!">>

\* the navigate tool was called twice, failed once and succeeded once, and the
\* whitespace-only second response was replaced by the navigation fallback
C5_Witness ==
  \E r \in Requests :
    /\ pc[r] = "done" /\ Len(answers[r]) = 2
    /\ answers[r][2].content = <<" ", "\n">>
    /\ Len(toolMessages[r]) = 2
    /\ toolMessages[r][1].toolName = "navigate_to_page"
    /\ Navigations(toolMessages[r]) = {2}
    /\ http[r].body = <<"I'll take you to that page now. ", "Navigating to homepage">>

\* C6: without OPENAI_API_KEY the route answers 500 with a JSON body {error}; it
\* invokes no model and executes no tool.
C6_NoKeyNoModel ==
  apiKey = Undefined \/ apiKey = JStr(<<>>) =>
    \A r \in Requests :
      /\ invocations[r] = 0 /\ answers[r] = <<>>
      /\ execLog[r] = <<>> /\ toolMessages[r] = <<>>
      /\ pc[r] \in {"idle", "json", "done"}
      /\ pc[r] = "done" =>
           /\ http[r].status = 500
           /\ http[r].contentType = "application/json"
           /\ ErrorOf(http[r].body).j = "str"
           /\ body[r].readable => ErrorOf(http[r].body) = JStr(<<"OpenAI API key not configured">>)

\* the key is the empty string and a readable request was refused
C6_Witness ==
  \E r \in Requests :
    /\ apiKey = JStr(<<>>)
    /\ pc[r] = "done" /\ body[r].readable /\ body[r].iterable
    /\ http[r].status = 500

\* C7: an exception outside the tool loop (the body cannot be read, the history
\* cannot be iterated, the first or the second model invocation fails) ends the
\* request with 500 and the JSON body {error: the exception's message}; such a
\* request gets no 200 response.
C7_UnhandledExceptionIs500 ==
  \A r \in Requests :
    /\ pc[r] = "done" /\ (\/ ~body[r].readable
                          \/ ~body[r].iterable /\ apiKey = JStr(<<"sk-test">>)
                          \/ Len(answers[r]) < invocations[r]) =>
         /\ Len(caught[r]) = 1
         /\ http[r].status = 500
         /\ http[r].contentType = "application/json"
         /\ ErrorOf(http[r].body)
              = JStr(IF caught[r][1].isError THEN caught[r][1].message
                     ELSE <<"Unknown error">>)
    /\ ~body[r].readable /\ pc[r] = "done" =>
         caught[r] = <<Thrown(TRUE, <<"Unexpected end of JSON input">>)>>
    /\ caught[r] # <<>> => pc[r] = "done" /\ http[r].status = 500
    /\ http[r].status = 200 =>
         /\ caught[r] = <<>>
         /\ body[r].readable /\ body[r].iterable
         /\ Len(answers[r]) = invocations[r]

\* the second model invocation failed after the tools had run
C7_Witness ==
  \E r \in Requests :
    /\ pc[r] = "done" /\ invocations[r] = 2 /\ Len(answers[r]) = 1
    /\ toolMessages[r] # <<>>
    /\ ErrorOf(http[r].body) = JStr(<<"Connection error.">>)

\* C8: every 200 response has a non-empty plain-text body, whatever the model
\* returned.
C8_NonEmptyBody ==
  \A r \in Requests :
    http[r].status = 200 =>
      /\ http[r].contentType = "text/plain; charset=utf-8"
      /\ Len(http[r].body) > 0
      /\ \A k \in 1..Len(http[r].body) : http[r].body[k] # ""

\* the model answered with empty content and no tool calls
C8_Witness ==
  \E r \in Requests :
    /\ http[r].status = 200
    /\ answers[r] = <<ModelResponse(<<>>, <<>>)>>
    /\ http[r].body = <<"I processed your request.">>

\* the history roles the route keeps, and the message type each becomes
KeptRoles == {"user", "assistant", "system"}
TypeOfRole(role) ==
  CASE role = "user" -> "human" [] role = "assistant" -> "ai" [] OTHER -> "system"

\* C9: the first model input is the system prompt when the body has one (a
\* non-empty string), then the history entries whose role is user, assistant or
\* system, in their order and with the others dropped, then the current message
\* as the last element, pushed once.
C9_FirstModelInput ==
  \A r \in Requests :
    pc[r] = "invoke1" =>
      LET b == body[r]
          kept == SelectSeq(b.history, LAMBDA e : e.role \in KeptRoles)
          sys == IF b.systemPrompt # Undefined /\ b.systemPrompt # JStr(<<>>) THEN 1 ELSE 0
          input == messages[r]
      IN /\ Len(input) = sys + Len(kept) + 1
         /\ sys = 1 => input[1].type = "system" /\ input[1].content = b.systemPrompt.s
         /\ \A k \in 1..Len(kept) :
              /\ input[sys + k].type = TypeOfRole(kept[k].role)
              /\ input[sys + k].content = kept[k].content
         /\ input[Len(input)].type = "human"
         /\ input[Len(input)].content = b.message
         /\ \A k \in 1..Len(input) : input[k].tool_calls = <<>> /\ input[k].tool_call_id = ""

\* a body with a system prompt and a history of a tool entry and a user entry
\* that has the text of the current message
C9_Witness ==
  \E r \in Requests :
    /\ pc[r] = "invoke1"
    /\ body[r].systemPrompt = JStr(<<"You are a star salesman.">>)
    /\ Len(body[r].history) = 2
    /\ body[r].history[1].role = "tool"
    /\ body[r].history[2] = [role |-> "user", content |-> body[r].message]
    /\ Len(messages[r]) = 3

\* the tool messages of a request answer its own tool calls, and two requests
\* that got the same body, the same model responses and failure and the same
\* results from the tools they executed have the same tool messages and response
C10_OwnResults ==
  /\ \A r \in Requests :
       /\ Len(toolMessages[r]) <= Len(originalToolCalls[r])
       /\ \A k \in 1..Len(toolMessages[r]) :
            /\ toolMessages[r][k].tool_call_id = originalToolCalls[r][k].id
            /\ toolMessages[r][k].toolName = originalToolCalls[r][k].name
  /\ \A r, q \in Requests :
       ( /\ pc[r] = "done" /\ pc[q] = "done"
         /\ body[r] = body[q] /\ answers[r] = answers[q] /\ caught[r] = caught[q]
         /\ \A k \in 1..Len(originalToolCalls[r]) :
              originalToolCalls[r][k].name \in {"search_stars", "navigate_to_page"} =>
                /\ k <= Len(toolMessages[r]) /\ k <= Len(toolMessages[q])
                /\ toolMessages[r][k].content = toolMessages[q][k].content )
       => toolMessages[r] = toolMessages[q] /\ http[r] = http[q]

\* C10: concurrent requests do not interfere: a step changes the locals of one
\* request only, under every interleaving, and what a request answers depends
\* only on its own body, model responses and tool results.
C10_NoInterference ==
  /\ [][Cardinality({r \in Requests : Local(r)' # Local(r)}) <= 1]_vars
  /\ []C10_OwnResults

\* one request waits for a tool while the other has run its tools and is done
C10_Witness ==
  \E r, q \in Requests :
    /\ pc[r] = "tool" /\ Len(toolMessages[r]) = 1
    /\ pc[q] = "done" /\ Len(answers[q]) = 2
    /\ toolMessages[q] # <<>> /\ toolMessages[q] # toolMessages[r]

(***************************************************************************)
(* The tools executed on their own (src/lib/chatbot/star-tools.ts): every   *)
(* input a tool call can carry, over every table of the bound.              *)
(***************************************************************************)
\* no tool has been executed
NoRun == [tool |-> "none"]

\* the values of params.query
SearchQueries ==
  { JNull, JNum(7), JBool(TRUE), JArr(<<>>),
    JStr(<<>>), JStr(<<" ", "\n">>),
    JStr(<<"s", "I", "r">>), JStr(<<" ", "V", "e", "g", "a", "\t">>), JStr(<<"i">>),
    JStr(<<"x", "y", "z">>),
    JStr(<<"_">>), JStr(<<"%">>), JStr(<<"s", "_", "r">>) }

\* the values of params.limit
SearchLimits ==
  { JNull, JStr(<<"3">>), JBool(TRUE),
    JNum(-1), JNum(0), JFrac(1, 2), JNum(1), JNum(2), JFrac(5, 2), JNum(5),
    JNum(10), JNum(50) }

\* an object with the property key for each value, and without it
Optional(key, values) == {<<>>} \cup { << <<key, v>> >> : v \in values }

\* the params of a search_stars call
SearchParams ==
  { JObj(q \o l) : q \in Optional("query", SearchQueries),
                   l \in Optional("limit", SearchLimits) }

\* the stars tables: every run of consecutive rows of the catalog
Catalogs ==
  { SubSeq(Catalog, i, j) : i \in 1..(Len(Catalog) + 1), j \in 0..Len(Catalog) }

\* the params of a navigate_to_page call
NavigateParams ==
  { JObj(d \o i) :
      d \in Optional("destination",
                     { JStr(<<"homepage">>), JStr(<<"star">>), JStr(<<"gallery">>),
                       JStr(<<>>), JNull, JNum(1) }),
      i \in Optional("starId",
                     { JNull, JNum(42), JNum(1), JNum(0), JNum(-1), JFrac(5, 2),
                       JStr(<<"42">>), JBool(TRUE) }) }

\* searchStarsTool.execute(params) is called and awaited
CallSearch(params, db, rows) ==
  /\ toolRun = NoRun
  /\ UNCHANGED <<clientVars, starPage, gallery>>
  /\ toolRun' = [tool |-> "search_stars", params |-> params, db |-> db, rows |-> rows,
                 result |-> SearchRun(params, db, rows).result,
                 database |-> SearchRun(params, db, rows).database]
  /\ UNCHANGED routeVars

\* navigateToPageTool.execute(params) is called and awaited
CallNavigate(params) ==
  /\ toolRun = NoRun
  /\ UNCHANGED <<clientVars, starPage, gallery>>
  /\ toolRun' = [tool |-> "navigate_to_page", params |-> params,
                 result |-> navigateToPageTool(params), database |-> <<>>]
  /\ UNCHANGED routeVars

(***************************************************************************)
(* Properties of the tools.                                                 *)
(***************************************************************************)
\* the number a is less than the number b
Less(a, b) == a.n * b.d < b.n * a.d

\* the query the last tool run issued, if it issued one
Selects == {k \in 1..Len(toolRun.database) : toolRun.database[k].op = "select"}

\* C11: the limit search_stars passes to the database query is in [1,10] for
\* every numeric limit (the limit itself inside the range, 10 above it, 1 below
\* it) and is 5 when the limit is omitted or is not a number.
C11_LimitIsClamped ==
  toolRun.tool = "search_stars" =>
    \A k \in Selects :
      LET given == Get(toolRun.params, "limit")
          used == toolRun.database[k].limit
      IN /\ TypeOf(used) = "number"
         /\ ~Less(used, JNum(1)) /\ ~Less(JNum(10), used)
         /\ TypeOf(given) = "number" =>
              /\ Less(JNum(10), given) => used = JNum(10)
              /\ Less(given, JNum(1)) => used = JNum(1)
              /\ ~Less(JNum(10), given) /\ ~Less(given, JNum(1)) => used = given
         /\ TypeOf(given) # "number" => used = JNum(5)

\* a search with limit 50 queried the database with limit 10
C11_Witness ==
  /\ toolRun.tool = "search_stars"
  /\ Get(toolRun.params, "limit") = JNum(50)
  /\ \E k \in Selects : toolRun.database[k].limit = JNum(10)

\* the names of an object's properties, in order
Keys(obj) == [k \in 1..Len(obj.o) |-> obj.o[k][1]]

\* a query that is missing, null, not a string, empty or only whitespace
IsRejectedQuery(query) ==
  \/ query = Undefined \/ query = JNull
  \/ TypeOf(query) # "string"
  \/ IsBlank(query.s)

\* C12: for a missing, null, non-string, empty or whitespace-only query
\* search_stars returns {success: false, stars: [], count: 0, message} and asks
\* nothing of the database: no client is created and no query is issued.
C12_BadQueryIsRejected ==
  toolRun.tool = "search_stars" /\ IsRejectedQuery(Get(toolRun.params, "query")) =>
    /\ TypeOf(toolRun.result) = "object"
    /\ Keys(toolRun.result) = <<"success", "stars", "count", "message">>
    /\ Get(toolRun.result, "success") = JBool(FALSE)
    /\ Get(toolRun.result, "stars") = JArr(<<>>)
    /\ Get(toolRun.result, "count") = JNum(0)
    /\ TypeOf(Get(toolRun.result, "message")) = "string"
    /\ Get(toolRun.result, "message").s # <<>>
    /\ toolRun.database = <<>>

\* a whitespace-only query was rejected over a table with rows, at a time when
\* creating a client would have failed
C12_Witness ==
  /\ toolRun.tool = "search_stars"
  /\ Get(toolRun.params, "query") = JStr(<<" ", "\n">>)
  /\ toolRun.db = "throw" /\ toolRun.rows = Catalog
  /\ Get(toolRun.result, "success") = JBool(FALSE)
  /\ toolRun.database = <<>>

\* the text contains the needle as a case-insensitive substring
Contains(text, needle) ==
  \E i \in 0..(Len(text) - Len(needle)) :
    LowerAll(SubSeq(text, i + 1, i + Len(needle))) = LowerAll(needle)

\* the rows of the table whose name, constellation or description contains the needle
RowsContaining(rows, needle) ==
  {k \in 1..Len(rows) : \/ Contains(rows[k].name, needle)
                        \/ Contains(rows[k].constellation, needle)
                        \/ Contains(rows[k].description, needle)}

\* the last run was a search with a valid query that returned success: true
SearchSucceeded ==
  /\ toolRun.tool = "search_stars"
  /\ ~IsRejectedQuery(Get(toolRun.params, "query"))
  /\ Get(toolRun.result, "success") = JBool(TRUE)

\* what C13 says of a successful search
SearchResultIsExact ==
  LET needle == Trim(Get(toolRun.params, "query").s)
      found == RowsContaining(toolRun.rows, needle)
      stars == Get(toolRun.result, "stars").a
      count == Get(toolRun.result, "count")
      limit == toolRun.database[Len(toolRun.database)].limit
  IN /\ \A i \in 1..Len(stars) : \E k \in found : stars[i] = RowJson(toolRun.rows[k])
     /\ found # {} => Len(stars) >= 1
     /\ count = JNum(Len(stars))
     /\ ~Less(limit, count)
     /\ found = {} => stars = <<>> /\ count = JNum(0)

\* C13: a successful search_stars result for a valid query has only rows whose
\* name, constellation or description contains the trimmed query as a
\* case-insensitive substring, has at least one row when such a row exists, has
\* count equal to the number of rows and at most the clamped limit, and is
\* empty with count 0 when no row matches.
C13_OnlyMatchingRows == SearchSucceeded => SearchResultIsExact

\* the same for the queries that have neither % nor _ in them
C13_WithoutWildcards ==
  /\ SearchSucceeded
  /\ \A k \in 1..Len(Get(toolRun.params, "query").s) :
       Get(toolRun.params, "query").s[k] \notin {"%", "_"}
  => SearchResultIsExact

\* a search for % over a table without any % returned rows
C13_WildcardReturnsRows ==
  /\ SearchSucceeded
  /\ Get(toolRun.params, "query") = JStr(<<"%">>)
  /\ RowsContaining(toolRun.rows, <<"%">>) = {}
  /\ Get(toolRun.result, "count") = JNum(3)

\* the value is a positive integer
IsPositiveInteger(v) == TypeOf(v) = "number" /\ v.n > 0 /\ v.n % v.d = 0

\* the result is a failure whose error starts with the text
FailsWith(result, text) ==
  /\ Get(result, "success") = JBool(FALSE)
  /\ TypeOf(Get(result, "error")) = "string"
  /\ Head(Get(result, "error").s) = text
  /\ Get(result, "action") = Undefined /\ Get(result, "url") = Undefined

\* the result is the navigation to the url
NavigatesTo(result, destination, url) ==
  /\ Get(result, "success") = JBool(TRUE)
  /\ Get(result, "action") = JStr(<<"navigate">>)
  /\ Get(result, "destination") = JStr(<<destination>>)
  /\ Get(result, "url") = JStr(url)

\* C14: navigate_to_page returns a value for every input: for destination
\* 'homepage' the navigation to '/', whatever starId is; for destination 'star'
\* the navigation to '/star/<starId>' exactly when starId is a positive integer,
\* 'Star ID required' when starId is missing or null, 'Invalid star ID' when it
\* is anything else; for any other destination 'Invalid destination'.
C14_NavigateIsTotal ==
  toolRun.tool = "navigate_to_page" =>
    LET destination == Get(toolRun.params, "destination")
        starId == Get(toolRun.params, "starId")
        result == toolRun.result
    IN /\ TypeOf(result) = "object"
       /\ toolRun.database = <<>>
       /\ destination = JStr(<<"homepage">>) => NavigatesTo(result, "homepage", <<"/">>)
       /\ destination = JStr(<<"star">>) =>
            /\ Get(result, "success") = JBool(TRUE) <=> IsPositiveInteger(starId)
            /\ IsPositiveInteger(starId) =>
                 NavigatesTo(result, "star", <<"/star/", ToString(starId.n \div starId.d)>>)
            /\ starId \in {Undefined, JNull} =>
                 FailsWith(result, "Star ID required for star navigation")
            /\ starId \notin {Undefined, JNull} /\ ~IsPositiveInteger(starId) =>
                 FailsWith(result, "Invalid star ID. Must be a positive integer")
       /\ destination \notin {JStr(<<"homepage">>), JStr(<<"star">>)} =>
            FailsWith(result, "Invalid destination. Must be ")

\* destination 'star' with starId 42 gave the url /star/42
C14_Witness ==
  /\ toolRun.tool = "navigate_to_page"
  /\ Get(toolRun.params, "destination") = JStr(<<"star">>)
  /\ Get(toolRun.params, "starId") = JNum(42)
  /\ Get(toolRun.result, "url") = JStr(<<"/star/", "42">>)

\* C30: search_stars always returns a value and lets no exception out; when
\* the query of a valid search comes back with an error the value is exactly
\* {success: false, stars: [], count: 0, message: 'Unable to connect to star
\* database'}, and when an exception is raised while searching (no client can
\* be made) it is {success: false, stars: [], count: 0, message} with the
\* message of the exception.
C30_SearchNeverThrows ==
  toolRun.tool = "search_stars" =>
    /\ toolRun.result.j = "obj"
    /\ Keys(toolRun.result) = <<"success", "stars", "count", "message">>
    /\ Get(toolRun.result, "success").j = "bool"
    /\ (toolRun.db = "error" /\ ~IsRejectedQuery(Get(toolRun.params, "query"))) =>
         toolRun.result
           = JObj(<< <<"success", JBool(FALSE)>>, <<"stars", JArr(<<>>)>>,
                     <<"count", JNum(0)>>,
                     <<"message", JStr(<<"Unable to connect to star database">>)>> >>)
    /\ (toolRun.db = "throw" /\ ~IsRejectedQuery(Get(toolRun.params, "query"))) =>
         /\ Get(toolRun.result, "success") = JBool(FALSE)
         /\ Get(toolRun.result, "stars") = JArr(<<>>)
         /\ Get(toolRun.result, "count") = JNum(0)
         /\ TypeOf(Get(toolRun.result, "message")) = "string"
         /\ toolRun.database = <<CreateClient>>

\* a valid search over a table with rows ended in the catch block: the client
\* could not be made, and a failure value came back
C30_Witness ==
  /\ toolRun.tool = "search_stars"
  /\ toolRun.db = "throw" /\ toolRun.rows = Catalog
  /\ Get(toolRun.params, "query") = JStr(<<"s", "I", "r">>)
  /\ toolRun.result = SearchFailure(<<"Missing Supabase configuration: ",
                                      "NEXT_PUBLIC_SUPABASE_URL">>)

(***************************************************************************)
(* The chat client: ChatbotProvider (src/lib/chatbot/chatbot-context.tsx),  *)
(* ChatbotInterface (src/app/_components/chatbot/ChatbotInterface.tsx) and  *)
(* the popup that mounts it.  A step is one event handler, effect or timer  *)
(* callback together with the render and the effects that follow it.        *)
(***************************************************************************)
STORAGE_VERSION == "1.0.0"

\* Date.now()
Now == 42

\* the literal the navigation regular expression starts with
Marker == "[Tool: navigate_to_page]"

\* a Message without an error
Message(prefix, role, content) ==
  JObj(<< <<"id", JStr(<<prefix, ToString(Now)>>)>>, <<"role", JStr(<<role>>)>>,
          <<"content", JStr(content)>>, <<"timestamp", JNum(Now)>> >>)

\* a failure reported without the error field
UnflaggedMessage(prefix, role, content, error) == Message(prefix, role, content)

\* a Message with its error field
FailedMessage(prefix, role, content, error) ==
  JObj(<< <<"id", JStr(<<prefix, ToString(Now)>>)>>, <<"role", JStr(<<role>>)>>,
          <<"content", JStr(content)>>, <<"timestamp", JNum(Now)>>,
          <<"error", JStr(error)>> >>)

Greeting == Message("greeting-", "assistant", <<"Hello! I'm your star energy consultant.">>)

\* v[key] of any value that is not null or undefined
Prop(v, key) == IF v.j = "obj" THEN Get(v, key) ELSE Undefined

\* the configs the provider is given: the default one and one for OpenAI
Configs ==
  { [backend |-> "api", apiKey |-> <<>>], [backend |-> "openai", apiKey |-> <<"sk-test">>] }

\* what new LangChainService(config) throws, formatted; null when it succeeds
InitError(cfg) ==
  IF cfg.backend \notin {"openai", "local"}
  THEN JStr(<<"Configuration Error: ", "Unsupported backend type ", Quote, cfg.backend, Quote>>)
  ELSE JNull

\* the effects of a ChatbotInterface that mounts while the list is msgs: the
\* service is made, and an empty list gets the greeting
MountInterface(cfg, msgs) ==
  (IF InitError(cfg) # JNull
   THEN Append(msgs, FailedMessage("error-", "system", InitError(cfg).s, InitError(cfg).s))
   ELSE msgs)
  \o (IF Len(msgs) = 0 THEN <<Greeting>> ELSE <<>>)

\* the state of ChatbotProvider before its effects have run
Defaults ==
  [messages |-> <<>>, isMinimized |-> FALSE, isOpen |-> FALSE, isLoading |-> FALSE,
   isInitialized |-> FALSE]

\* a PersistedChatbotState
Persisted(msgs, isMinimized, isOpen, version) ==
  JObj(<< <<"messages", JArr(msgs)>>, <<"isMinimized", JBool(isMinimized)>>,
          <<"isOpen", JBool(isOpen)>>, <<"version", JStr(<<version>>)>> >>)

\* the stateToSave of a provider state
StateToSave(p) == Persisted(p.messages, p.isMinimized, p.isOpen, STORAGE_VERSION)

RECURSIVE ValidateMessages(_)
\* the loop over data.messages: "valid", "invalid", or "throws" where msg.id is
\* read from null
ValidateMessages(msgs) ==
  IF msgs = <<>> THEN "valid"
  ELSE IF Head(msgs) \in {JNull, Undefined} THEN "throws"
  ELSE IF \/ ~Truthy(Prop(Head(msgs), "id")) \/ ~Truthy(Prop(Head(msgs), "role"))
          \/ ~Truthy(Prop(Head(msgs), "content"))
          \/ TypeOf(Prop(Head(msgs), "timestamp")) # "number"
  THEN "invalid"
  ELSE ValidateMessages(Tail(msgs))

\* a validation that does not look at the messages
ValidateWithoutMessages(data) ==
  IF ~Truthy(data) \/ TypeOf(data) # "object" THEN "invalid"
  ELSE IF Prop(data, "messages").j # "arr" THEN "invalid"
  ELSE IF TypeOf(Prop(data, "isMinimized")) # "boolean" THEN "invalid"
  ELSE IF TypeOf(Prop(data, "isOpen")) # "boolean" THEN "invalid"
  ELSE IF TypeOf(Prop(data, "version")) # "string" THEN "invalid"
  ELSE "valid"

validatePersistedState(data) ==
  IF ~Truthy(data) \/ TypeOf(data) # "object" THEN "invalid"
  ELSE IF Prop(data, "messages").j # "arr" THEN "invalid"
  ELSE IF TypeOf(Prop(data, "isMinimized")) # "boolean" THEN "invalid"
  ELSE IF TypeOf(Prop(data, "isOpen")) # "boolean" THEN "invalid"
  ELSE IF TypeOf(Prop(data, "version")) # "string" THEN "invalid"
  ELSE ValidateMessages(Prop(data, "messages").a)

\* localStorage has no item under the key
NoItem == JNull

\* restoreState() finds nothing to restore and leaves the item as it is
NothingStored(stored) == [ok |-> FALSE, localStorage |-> stored]

\* restoreState() removes the item
Discarded == [ok |-> FALSE, localStorage |-> NoItem]

\* a restoreState that never looks at the item
RestoreNothing(stored) == [ok |-> FALSE, localStorage |-> stored]

\* restoreState() over the stored item: what it returns and what it leaves stored
restoreState(stored) ==
  IF ~Truthy(stored) THEN NothingStored(stored)
  ELSE LET parsed == JsonParse(stored.s)
       IN IF ~parsed.ok THEN Discarded
          ELSE IF validatePersistedState(parsed.v) # "valid" THEN Discarded
          ELSE [ok |-> TRUE, localStorage |-> stored,
                messages |-> Prop(parsed.v, "messages").a,
                isMinimized |-> Prop(parsed.v, "isMinimized").b,
                isOpen |-> Prop(parsed.v, "isOpen").b]

\* clearTimeout(handle)
ClearTimeout(pending, handle) == {t \in pending : t.handle # handle}

\* the handle setTimeout returns: one that no pending timeout and no ref has
NewHandle(pending, ref) ==
  CHOOSE h \in 1..(Cardinality(pending) + 2) :
    /\ h # ref /\ \A t \in pending : t.handle # h
    /\ \A g \in 1..(h - 1) : g = ref \/ \E t \in pending : t.handle = g

\* a timeout whose callback writes the state p
Timeout(handle, p) == [handle |-> handle, stateToSave |-> StateToSave(p)]

\* a save effect that sets its timeout without clearing the one before
ScheduleWithoutClear(pending, ref, p) ==
  [timeouts |-> pending \cup {Timeout(NewHandle(pending, ref), p)},
   ref |-> NewHandle(pending, ref)]

\* the save effect for the rendered state p: the cleanup of the effect before
\* and the effect clear the timeout of the ref, then a new one is set
Schedule(pending, ref, p) ==
  [timeouts |-> ClearTimeout(pending, ref)
                  \cup {Timeout(NewHandle(ClearTimeout(pending, ref), ref), p)},
   ref |-> NewHandle(ClearTimeout(pending, ref), ref)]

\* the dependencies of the save effect
SaveDeps(p) == <<p.messages, p.isMinimized, p.isOpen, p.isInitialized>>

\* the provider renders the state p; the save effect runs when its
\* dependencies have changed and the provider is initialized
Render(p) ==
  /\ provider' = p
  /\ IF p.isInitialized /\ SaveDeps(p) # SaveDeps(provider)
     THEN /\ timeouts' = Schedule(timeouts, saveTimeoutRef, p).timeouts
          /\ saveTimeoutRef' = Schedule(timeouts, saveTimeoutRef, p).ref
     ELSE UNCHANGED <<timeouts, saveTimeoutRef>>

\* an addMessage that puts the message first
PrependMessage(p, message) == [p EXCEPT !.messages = <<message>> \o @]

\* addMessage(message)
addMessage(p, message) == [p EXCEPT !.messages = Append(@, message)]

\* a detection that does not look for the marker
DetectWithoutMarker(responseText) ==
  LET opens == {j \in 1..Len(responseText) : responseText[j] = "{"}
      j == CHOOSE a \in opens : \A b \in opens : a <= b
      closes == {k \in (j + 1)..Len(responseText) : responseText[k] = "}"}
      k == CHOOSE a \in closes : \A b \in closes : a <= b
      toolResult == JsonParse(SubSeq(responseText, j, k))
  IN IF opens = {} \/ closes = {} THEN JNull
     ELSE IF ~toolResult.ok THEN JNull
     ELSE IF /\ Truthy(Prop(toolResult.v, "success"))
             /\ Prop(toolResult.v, "action") = JStr(<<"navigate">>)
             /\ Truthy(Prop(toolResult.v, "url"))
     THEN toolResult.v
     ELSE JNull

\* the index after i of the first token that is not whitespace
SkipSpaces(text, i) ==
  CHOOSE j \in (i + 1)..(Len(text) + 1) :
    /\ \A k \in (i + 1)..(j - 1) : IsSpace(text[k])
    /\ j <= Len(text) => ~IsSpace(text[j])

\* detectNavigationAction(responseText): the first match of
\* /\[Tool: navigate_to_page\]\s*(\{[\s\S]*?\})/, its group parsed and checked
detectNavigationAction(responseText) ==
  LET starts == {i \in 1..Len(responseText) :
                   /\ responseText[i] = Marker
                   /\ SkipSpaces(responseText, i) <= Len(responseText)
                   /\ responseText[SkipSpaces(responseText, i)] = "{"
                   /\ \E k \in (SkipSpaces(responseText, i) + 1)..Len(responseText) :
                        responseText[k] = "}"}
      i == CHOOSE a \in starts : \A b \in starts : a <= b
      j == SkipSpaces(responseText, i)
      closes == {k \in (j + 1)..Len(responseText) : responseText[k] = "}"}
      k == CHOOSE a \in closes : \A b \in closes : a <= b
      toolResult == JsonParse(SubSeq(responseText, j, k))
  IN IF starts = {} THEN JNull
     ELSE IF ~toolResult.ok THEN JNull
     ELSE IF /\ Truthy(Prop(toolResult.v, "success"))
             /\ Prop(toolResult.v, "action") = JStr(<<"navigate">>)
             /\ Truthy(Prop(toolResult.v, "url"))
     THEN toolResult.v
     ELSE JNull

\* the texts the user types into the message input
UserTexts == { <<"hi">>, <<" ", "hi", "\n">>, <<" ">>, <<>> }

\* the result of a successful navigate_to_page call, as JSON text
NavigationText(params) == Stringify(navigateToPageTool(JObj(params)))

\* the full responses of the backend
Replies ==
  { <<>>,
    <<"Sirius is the brightest star.">>,
    <<"Taking you home. ", Marker, " ">>
      \o NavigationText(<< <<"destination", JStr(<<"homepage">>)>> >>),
    <<Marker, "\n">>
      \o NavigationText(<< <<"destination", JStr(<<"star">>)>>, <<"starId", JNum(42)>> >>)
      \o <<" Enjoy.">>,
    NavigationText(<< <<"destination", JStr(<<"homepage">>)>> >>),
    <<Marker, " ", "{", "oops", "}">>,
    <<Marker>> \o NavigationText(<< <<"destination", JStr(<<"star">>)>> >>),
    <<Marker>> \o Stringify(JObj(<< <<"success", JBool(TRUE)>>,
                                    <<"action", JStr(<<"navigate">>)>>,
                                    <<"url", JStr(<<>>)>> >>)),
    <<Marker>> \o Stringify(JObj(<< <<"success", JBool(TRUE)>>,
                                    <<"data", JObj(<<>>)>>,
                                    <<"action", JStr(<<"navigate">>)>>,
                                    <<"url", JStr(<<"/">>)>> >>)) }

\* the messages of the errors a send ends with: fetch rejects, or the server
\* answers with a status that is not OK and the body {error}
SendErrors == { <<"Failed to fetch">>, <<"OpenAI API key not configured">> }

\* the values found under the key when the page loads, before JSON.stringify
StoredValues ==
  { Persisted(<<>>, FALSE, FALSE, STORAGE_VERSION),
    Persisted(<< Message("user-", "user", <<"hi">>),
                 FailedMessage("error-", "assistant",
                               <<"I encountered an error processing your message.">>,
                               <<"Error: ", "Failed to fetch">>) >>,
              FALSE, TRUE, STORAGE_VERSION),
    Persisted(<<Greeting>>, TRUE, TRUE, "0.9.0"),
    JNull, JNum(5), JArr(<<>>), JObj(<<>>),
    JObj(<< <<"messages", JStr(<<"none">>)>>, <<"isMinimized", JBool(FALSE)>>,
            <<"isOpen", JBool(FALSE)>>, <<"version", JStr(<<STORAGE_VERSION>>)>> >>),
    JObj(<< <<"messages", JArr(<<>>)>>, <<"isMinimized", JStr(<<"false">>)>>,
            <<"isOpen", JBool(FALSE)>>, <<"version", JStr(<<STORAGE_VERSION>>)>> >>),
    JObj(<< <<"messages", JArr(<<>>)>>, <<"isMinimized", JBool(TRUE)>>,
            <<"version", JStr(<<STORAGE_VERSION>>)>> >>),
    JObj(<< <<"messages", JArr(<<>>)>>, <<"isMinimized", JBool(TRUE)>>,
            <<"isOpen", JBool(TRUE)>>, <<"version", JNum(1)>> >>),
    Persisted(<< Greeting, JNull >>, FALSE, TRUE, STORAGE_VERSION),
    Persisted(<< JNum(7) >>, FALSE, TRUE, STORAGE_VERSION),
    Persisted(<< JObj(<< <<"id", JStr(<<>>)>>, <<"role", JStr(<<"user">>)>>,
                         <<"content", JStr(<<"hi">>)>>, <<"timestamp", JNum(Now)>> >>) >>,
              TRUE, TRUE, STORAGE_VERSION),
    Persisted(<< JObj(<< <<"id", JStr(<<"user-", "42">>)>>,
                         <<"content", JStr(<<"hi">>)>>, <<"timestamp", JNum(Now)>> >>) >>,
              TRUE, TRUE, STORAGE_VERSION),
    Persisted(<< Message("user-", "user", <<>>) >>, TRUE, TRUE, STORAGE_VERSION),
    Persisted(<< JObj(<< <<"id", JStr(<<"user-", "42">>)>>, <<"role", JStr(<<"user">>)>>,
                         <<"content", JStr(<<"hi">>)>>,
                         <<"timestamp", JStr(<<"42">>)>> >>) >>,
              TRUE, TRUE, STORAGE_VERSION) }

\* the items found under the key when the page loads
StoredItems ==
  {NoItem, JStr(<<>>), JStr(<<"{", "oops">>)} \cup {JStr(Stringify(v)) : v \in StoredValues}

\* no handleSendMessage call is in flight
NotSending == [state |-> "none"]

\* nothing has been received yet
NothingReceived == [state |-> "none"]

\* the provider has just been constructed around the stored item
ClientInit ==
  /\ config \in Configs
  /\ localStorage \in StoredItems
  /\ provider = Defaults
  /\ saveTimeoutRef = 0
  /\ timeouts = {}
  /\ pendingNavigation = JNull
  /\ sending = NotSending
  /\ received = NothingReceived
  /\ router = <<>>

\* a ChatbotInterface is mounted
Mounted == provider.isInitialized /\ ~provider.isMinimized

\* the popup can be clicked
Visible == provider.isInitialized /\ provider.isOpen

\* the mount of the provider and of the popup inside it: the effects of
\* ChatbotInterface run on the empty list, then the provider restores
Mount ==
  /\ ~provider.isInitialized
  /\ LET restored == restoreState(localStorage)
     IN /\ localStorage' = restored.localStorage
        /\ Render(IF restored.ok
                  THEN [provider EXCEPT !.messages = restored.messages,
                                        !.isMinimized = restored.isMinimized,
                                        !.isOpen = restored.isOpen,
                                        !.isInitialized = TRUE]
                  ELSE [provider EXCEPT !.messages = MountInterface(config, <<>>),
                                        !.isInitialized = TRUE])
  /\ UNCHANGED <<elsewhereOfClient, config, pendingNavigation, sending, received, router>>

\* toggleMinimize: minimizing unmounts ChatbotInterface and its state with
\* it, expanding mounts a new one
ToggleMinimize ==
  /\ Visible
  /\ IF provider.isMinimized
     THEN /\ Len(MountInterface(config, provider.messages)) <= MaxMessages
          /\ Render([provider EXCEPT !.isMinimized = FALSE,
                                     !.messages = MountInterface(config, @)])
          /\ UNCHANGED <<pendingNavigation, sending>>
     ELSE /\ Render([provider EXCEPT !.isMinimized = TRUE])
          /\ pendingNavigation' = JNull
          /\ sending' = IF sending = NotSending THEN sending
                        ELSE [sending EXCEPT !.alive = FALSE]
  /\ UNCHANGED <<elsewhereOfClient, config, localStorage, received, router>>

\* toggleOpen, from the open button, the close button or the Escape key
ToggleOpen ==
  /\ provider.isInitialized
  /\ Render([provider EXCEPT !.isOpen = ~@])
  /\ UNCHANGED <<elsewhereOfClient, config, localStorage, pendingNavigation, sending,
                 received, router>>

\* handleSendMessage up to its await
StartSend(messageContent) ==
  /\ Len(provider.messages) + 2 <= MaxMessages
  /\ Render([addMessage(provider, Message("user-", "user", messageContent))
               EXCEPT !.isLoading = TRUE])
  /\ sending' = [state |-> "awaiting", alive |-> TRUE,
                 to |-> IF config.backend = "api" THEN "/api/chat" ELSE "serviceRef"]
  /\ UNCHANGED <<elsewhereOfClient, config, localStorage, pendingNavigation, received, router>>

\* the disabled prop of MessageInput
InputDisabled == provider.isLoading \/ InitError(config) # JNull

\* onSend(messageContent) of the message input
Send(messageContent) ==
  /\ Visible /\ Mounted
  /\ ~InputDisabled
  /\ StartSend(messageContent)

\* a handleSend that sends what was typed as it is
SendUntrimmed(input) == Send(input)

\* handleSend of the message input, from the Send button or the Enter key
handleSend(input) ==
  /\ Trim(input) # <<>>
  /\ Send(Trim(input))

\* the user messages of the list
UserMessages(msgs) ==
  {k \in 1..Len(msgs) : Prop(msgs[k], "role") = JStr(<<"user">>)}

\* getLastUserMessage()
getLastUserMessage(msgs) ==
  IF UserMessages(msgs) = {} THEN JNull
  ELSE Prop(msgs[CHOOSE k \in UserMessages(msgs) : \A j \in UserMessages(msgs) : j <= k],
            "content")

\* hasRecentError()
hasRecentError(msgs) == msgs # <<>> /\ Truthy(Prop(msgs[Len(msgs)], "error"))

\* the user clicks Retry on the error banner
Retry ==
  /\ Visible /\ Mounted
  /\ ~provider.isLoading /\ hasRecentError(provider.messages)
  /\ Truthy(getLastUserMessage(provider.messages))
  /\ StartSend(getLastUserMessage(provider.messages).s)

\* handleSendMessage after the full response has been read
ResponseArrives(fullResponse) ==
  /\ sending # NotSending
  /\ Render([addMessage(provider,
                        Message("assistant-", "assistant",
                                IF fullResponse = <<>> THEN <<"No response received">>
                                                       ELSE fullResponse))
               EXCEPT !.isLoading = FALSE])
  /\ pendingNavigation' =
       IF sending.alive /\ detectNavigationAction(fullResponse) # JNull
       THEN detectNavigationAction(fullResponse)
       ELSE pendingNavigation
  /\ sending' = NotSending
  /\ received' = [state |-> "response", fullResponse |-> fullResponse]
  /\ UNCHANGED <<elsewhereOfClient, config, localStorage, router>>

\* handleSendMessage when the request or the reading of it fails
SendFails(error) ==
  /\ sending # NotSending
  /\ Render([addMessage(provider,
                        FailedMessage("error-", "assistant",
                                      <<"I encountered an error processing your message.">>,
                                      <<"Error: ">> \o error))
               EXCEPT !.isLoading = FALSE])
  /\ sending' = NotSending
  /\ received' = [state |-> "error", error |-> error]
  /\ UNCHANGED <<elsewhereOfClient, config, localStorage, pendingNavigation, router>>

\* `${navResult.message}`
MessageOf(navResult) ==
  IF TypeOf(Prop(navResult, "message")) = "string" THEN Prop(navResult, "message").s
  ELSE <<"undefined">>

\* executeNavigation(pendingNavigation), from the Go to page button; pushThrows
\* when router.push throws
ConfirmNavigation(pushThrows) ==
  /\ Visible /\ Mounted
  /\ pendingNavigation # JNull /\ ~provider.isLoading
  /\ Len(provider.messages) + 1 <= MaxMessages
  /\ IF pushThrows
     THEN /\ Render(addMessage(provider,
                               FailedMessage("nav-error-", "system",
                                             <<"Failed to navigate: ", "push failed">>,
                                             <<"push failed">>)))
          /\ UNCHANGED router
     ELSE /\ Render(addMessage(provider,
                               Message("nav-confirm-", "system",
                                       <<"[check] ">> \o MessageOf(pendingNavigation))))
          /\ router' = Append(router, Prop(pendingNavigation, "url").s)
  /\ pendingNavigation' = JNull
  /\ UNCHANGED <<elsewhereOfClient, config, localStorage, sending, received>>

\* cancelNavigation(), from the Cancel button
CancelNavigation ==
  /\ Visible /\ Mounted
  /\ pendingNavigation # JNull /\ ~provider.isLoading
  /\ Len(provider.messages) + 1 <= MaxMessages
  /\ Render(addMessage(provider, Message("nav-cancel-", "system", <<"Navigation cancelled">>)))
  /\ pendingNavigation' = JNull
  /\ UNCHANGED <<elsewhereOfClient, config, localStorage, sending, received, router>>

\* the callback of a pending timeout runs: the state it closed over is written
SaveTimerFires(t) ==
  /\ t \in timeouts
  /\ timeouts' = timeouts \ {t}
  /\ localStorage' = JStr(Stringify(t.stateToSave))
  /\ UNCHANGED <<elsewhereOfClient, config, provider, saveTimeoutRef, pendingNavigation,
                 sending, received, router>>

\* the tab is closed, or the page is left for another document, and the page
\* is loaded again: the provider unmounts, the cleanup of the save effect
\* clears the timeout, and a new provider is constructed over what is stored
CloseTab ==
  /\ provider.isInitialized
  /\ provider' = Defaults
  /\ saveTimeoutRef' = 0
  /\ timeouts' = {}
  /\ pendingNavigation' = JNull
  /\ sending' = NotSending
  /\ received' = NothingReceived
  /\ router' = <<>>
  /\ UNCHANGED <<elsewhereOfClient, config, localStorage>>

\* one step of the chat client in one browser tab, from the page load on
ClientNext ==
  \/ Mount
  \/ ToggleMinimize
  \/ ToggleOpen
  \/ \E input \in UserTexts : handleSend(input)
  \/ Retry
  \/ \E fullResponse \in Replies : ResponseArrives(fullResponse)
  \/ \E error \in SendErrors : SendFails(error)
  \/ \E pushThrows \in BOOLEAN : ConfirmNavigation(pushThrows)
  \/ CancelNavigation
  \/ \E t \in timeouts : SaveTimerFires(t)

(***************************************************************************)
(* Properties of the chat client.                                           *)
(***************************************************************************)
\* the step is the end of a handleSendMessage call that read a full response
IsResponseStep ==
  sending # NotSending /\ sending' = NotSending /\ received'.state = "response"

\* the objects that follow the marker in the text: a marker, then only
\* whitespace, then a run of text from a "{" to a "}" that parses as JSON
BlobsAfterMarker(text) ==
  { JsonParse(SubSeq(text, j, k)).v :
      <<j, k>> \in { <<a, b>> \in (1..Len(text)) \X (1..Len(text)) :
                       /\ a < b /\ text[a] = "{" /\ text[b] = "}"
                       /\ \E i \in 1..(a - 1) :
                            /\ text[i] = Marker
                            /\ \A m \in (i + 1)..(a - 1) : IsSpace(text[m])
                       /\ JsonParse(SubSeq(text, a, b)).ok } }

\* the object declares action 'navigate' and a url that is not empty
DeclaresNavigation(v) ==
  /\ Prop(v, "action") = JStr(<<"navigate">>)
  /\ TypeOf(Prop(v, "url")) = "string" /\ Prop(v, "url").s # <<>>

\* C15: a full reply sets the pending navigation only if its text has the
\* marker followed by a JSON object that parses and declares action
\* 'navigate' and a url that is not empty, and then the pending navigation is
\* that object; every other reply leaves the navigation state as it was; in
\* both cases the call ends with the reply appended as an assistant message
\* that carries no error.
C15_PendingOnlyFromMarkedReply ==
  [][IsResponseStep =>
       /\ pendingNavigation' # pendingNavigation =>
            /\ pendingNavigation' \in BlobsAfterMarker(received'.fullResponse)
            /\ DeclaresNavigation(pendingNavigation')
       /\ (~\E v \in BlobsAfterMarker(received'.fullResponse) : DeclaresNavigation(v)) =>
            pendingNavigation' = pendingNavigation
       /\ Len(provider'.messages) = Len(provider.messages) + 1
       /\ Prop(provider'.messages[Len(provider'.messages)], "role") = JStr(<<"assistant">>)
       /\ Prop(provider'.messages[Len(provider'.messages)], "error") = Undefined
       /\ ~provider'.isLoading]_vars

\* a marked reply has been read and its object is the pending navigation
C15_Witness ==
  /\ received.state = "response"
  /\ pendingNavigation \in BlobsAfterMarker(received.fullResponse)
  /\ DeclaresNavigation(pendingNavigation)
  /\ provider.messages[Len(provider.messages)]
       = Message("assistant-", "assistant", received.fullResponse)


\* the last message of the list
Last(msgs) == msgs[Len(msgs)]

\* the step appends one system message to the list and changes nothing before it
AppendsSystemMessage ==
  /\ Len(provider'.messages) = Len(provider.messages) + 1
  /\ SubSeq(provider'.messages, 1, Len(provider.messages)) = provider.messages
  /\ Prop(Last(provider'.messages), "role") = JStr(<<"system">>)

\* the step asks the router for the url of the pending navigation, once
PushesPendingUrl ==
  /\ pendingNavigation # JNull
  /\ router' = Append(router, Prop(pendingNavigation, "url").s)

\* C16: the router is asked to navigate only by a step that starts from a
\* pending navigation, with that navigation's url, and that step returns the
\* state to none; a pending navigation returns to none only by a step that
\* appends one system message (confirm or cancel), never by a timer, a send or
\* any other step.
C16_OnlyConfirmOrCancelClears ==
  [][/\ router' # router =>
          PushesPendingUrl /\ pendingNavigation' = JNull /\ AppendsSystemMessage
     /\ (pendingNavigation # JNull /\ pendingNavigation' = JNull) =>
          AppendsSystemMessage]_vars

\* the same, but for the steps that minimize the popup: those unmount the
\* interface that holds the pending navigation
C16_ExceptOnMinimize ==
  [][/\ router' # router =>
          PushesPendingUrl /\ pendingNavigation' = JNull /\ AppendsSystemMessage
     /\ (pendingNavigation # JNull /\ pendingNavigation' = JNull) =>
          \/ AppendsSystemMessage
          \/ ~provider.isMinimized /\ provider'.isMinimized]_vars

\* a navigation is pending while the Minimize button of the popup can be clicked
C16_PendingCanBeMinimized ==
  /\ pendingNavigation # JNull
  /\ Visible /\ Mounted
  /\ \E i \in 1..Len(provider.messages) :
       /\ Prop(provider.messages[i], "role") = JStr(<<"assistant">>)
       /\ detectNavigationAction(Prop(provider.messages[i], "content").s) = pendingNavigation

\* the step is the callback of a pending timer: the timer is gone and the
\* provider has not rendered
IsWriteStep == provider' = provider /\ \E t \in timeouts : t \notin timeouts'

\* C17: at most one write timer is pending at any time, and it holds the
\* latest state; every change of messages, isMinimized or isOpen of the
\* initialized provider cancels the pending timer and starts a new one; a
\* write leaves no timer pending, so a burst of changes ends in one write, and
\* what is written is the latest state with the version tag.
C17_OneTimerLatestState ==
  /\ [](/\ Cardinality(timeouts) <= 1
        /\ \A t \in timeouts : t.stateToSave = StateToSave(provider)
        /\ ~provider.isInitialized => timeouts = {})
  /\ [][/\ (provider'.isInitialized /\ SaveDeps(provider') # SaveDeps(provider)) =>
             /\ timeouts' \cap timeouts = {}
             /\ \E t \in timeouts' :
                  /\ timeouts' = {t}
                  /\ t.handle = saveTimeoutRef'
                  /\ \A old \in timeouts : old.handle # t.handle
        /\ IsWriteStep =>
             /\ timeouts' = {}
             /\ \A written \in {localStorage'} :
                  /\ written = JStr(Stringify(StateToSave(provider)))
                  /\ JsonParse(written.s).ok
                  /\ Prop(JsonParse(written.s).v, "version") = JStr(<<STORAGE_VERSION>>)
                  /\ Prop(JsonParse(written.s).v, "messages") = JArr(provider.messages)
                  /\ Prop(JsonParse(written.s).v, "isMinimized") = JBool(provider.isMinimized)
                  /\ Prop(JsonParse(written.s).v, "isOpen") = JBool(provider.isOpen)]_vars

\* after several changes one write has stored the latest state and no timer
\* is left
C17_Witness ==
  /\ provider.isInitialized /\ timeouts = {}
  /\ provider.isOpen /\ Len(provider.messages) >= 3
  /\ localStorage = JStr(Stringify(StateToSave(provider)))

\* the step is the load: the provider becomes initialized
IsLoadStep == ~provider.isInitialized /\ provider'.isInitialized

\* the field is there and is not empty
NonEmpty(v) == v.j \notin {"undefined", "null"} /\ v # JStr(<<>>)

\* an object with an array messages, boolean isMinimized and isOpen, a string
\* version, and in every message an id, a role and a content that are not
\* empty and a numeric timestamp
WellFormed(data) ==
  /\ data.j = "obj"
  /\ Prop(data, "messages").j = "arr"
  /\ Prop(data, "isMinimized").j = "bool"
  /\ Prop(data, "isOpen").j = "bool"
  /\ Prop(data, "version").j = "str"
  /\ \A i \in 1..Len(Prop(data, "messages").a) :
       LET msg == Prop(data, "messages").a[i]
       IN /\ NonEmpty(Prop(msg, "id")) /\ NonEmpty(Prop(msg, "role"))
          /\ NonEmpty(Prop(msg, "content"))
          /\ Prop(msg, "timestamp").j = "num"

\* the stored item is JSON text of a well-formed state
WellFormedItem(stored) ==
  /\ stored.j = "str"
  /\ JsonParse(stored.s).ok
  /\ WellFormed(JsonParse(stored.s).v)

\* the load restores the stored state and leaves the item where it is
RestoresStored ==
  LET data == JsonParse(localStorage.s).v
  IN /\ provider'.messages = Prop(data, "messages").a
     /\ provider'.isMinimized = Prop(data, "isMinimized").b
     /\ provider'.isOpen = Prop(data, "isOpen").b
     /\ localStorage' = localStorage

\* the load restores nothing: the popup is closed and expanded as by default
\* and the list holds what a load without a stored item puts in it
StaysAtDefaults ==
  /\ provider'.isMinimized = Defaults.isMinimized
  /\ provider'.isOpen = Defaults.isOpen
  /\ provider'.messages = MountInterface(config, Defaults.messages)

\* C18 as stated: the load restores the stored state if and only if it is
\* well-formed JSON of the shape above; for every other item the key is
\* removed, nothing is restored and the state stays at its defaults.
C18_InvalidIsRemoved ==
  [][IsLoadStep =>
       IF WellFormedItem(localStorage) THEN RestoresStored
       ELSE StaysAtDefaults /\ localStorage' = NoItem]_vars

\* C18: as above, except that a stored empty string counts as nothing stored:
\* nothing is restored and the state stays at its defaults, but the key is
\* left as it is; every other item that does not parse or is not well-formed
\* is removed.
C18_InvalidIsRemovedUnlessEmpty ==
  [][IsLoadStep =>
       IF WellFormedItem(localStorage) THEN RestoresStored
       ELSE /\ StaysAtDefaults
            /\ localStorage' = IF localStorage = JStr(<<>>) THEN localStorage ELSE NoItem]_vars

\* the load has restored a well-formed stored state of an older version: the
\* item is still the stored one, and the list and the flags are the stored ones
C18_Witness ==
  /\ provider.isInitialized
  /\ WellFormedItem(localStorage)
  /\ localStorage = JStr(Stringify(Persisted(<<Greeting>>, TRUE, TRUE, "0.9.0")))
  /\ provider.messages = <<Greeting>> /\ provider.isMinimized /\ provider.isOpen

\* the list old is the beginning of the list new
IsPrefix(old, new) == Len(old) <= Len(new) /\ SubSeq(new, 1, Len(old)) = old

\* the step expands the minimized popup: a new ChatbotInterface mounts, and
\* its two mount effects may each call addMessage
IsExpandStep == provider.isMinimized /\ ~provider'.isMinimized

\* C19: once the stored state has been restored, every step leaves the
\* messages of the list where they are and as they are: the list after the
\* step begins with the list before it, and what a step adds is one message
\* at the end for each addMessage it calls (one for a send, a retry, a reply,
\* a failed send, a confirmed or cancelled navigation; at most two for the
\* mount effects of an expanded popup; none for minimize, open and close).
C19_MessagesAreAppendOnly ==
  [][provider.isInitialized =>
       /\ IsPrefix(provider.messages, provider'.messages)
       /\ Len(provider'.messages) <= Len(provider.messages) + (IF IsExpandStep THEN 2 ELSE 1)
       /\ (provider'.isMinimized /\ ~provider.isMinimized) =>
            provider'.messages = provider.messages
       /\ provider'.isOpen # provider.isOpen => provider'.messages = provider.messages
       /\ (sending' # sending \/ pendingNavigation' # pendingNavigation
           \/ router' # router) /\ provider'.isMinimized = provider.isMinimized =>
            Len(provider'.messages) = Len(provider.messages) + 1]_vars

\* the restored list of two messages has grown by a retry and its reply
C19_Witness ==
  /\ provider.isInitialized
  /\ Len(provider.messages) = 4
  /\ SubSeq(provider.messages, 1, 2)
       = << Message("user-", "user", <<"hi">>),
            FailedMessage("error-", "assistant",
                          <<"I encountered an error processing your message.">>,
                          <<"Error: ", "Failed to fetch">>) >>
  /\ provider.messages[3] = Message("user-", "user", <<"hi">>)
  /\ Prop(provider.messages[4], "role") = JStr(<<"assistant">>)
  /\ received.state = "response"

\* the step is the start of a handleSendMessage call
IsSendStep == sending = NotSending /\ sending' # NotSending

\* the step is the end of a handleSendMessage call
IsSettleStep == sending # NotSending /\ sending' = NotSending

\* the messages the step has appended
Appended == SubSeq(provider'.messages, Len(provider.messages) + 1, Len(provider'.messages))

\* C24: a send appends the user message and sets isLoading; isLoading is true
\* exactly while the request is outstanding; while it is, no assistant message
\* is appended; the request's end appends exactly one assistant message and
\* clears isLoading: the reply ('No response received' for an empty one) without
\* an error flag when a response was read, a message with the error flag when
\* the request failed or the server's status was not OK; and every request
\* that settles at all comes to that end.
C24_OneAssistantMessagePerSend ==
  /\ [](provider.isLoading <=> sending # NotSending)
  /\ [][/\ IsPrefix(provider.messages, provider'.messages) \/ ~provider.isInitialized
        /\ IsSendStep =>
             /\ Len(Appended) = 1
             /\ Prop(Appended[1], "role") = JStr(<<"user">>)
             /\ Prop(Appended[1], "error") = Undefined
             /\ provider'.isLoading
        /\ (sending # NotSending /\ sending' # NotSending) =>
             /\ provider'.isLoading
             /\ \A k \in 1..Len(Appended) : Prop(Appended[k], "role") # JStr(<<"assistant">>)
        /\ IsSettleStep =>
             /\ ~provider'.isLoading
             /\ Len(Appended) = 1
             /\ Prop(Appended[1], "role") = JStr(<<"assistant">>)
             /\ received'.state = "response" =>
                  /\ Prop(Appended[1], "error") = Undefined
                  /\ Prop(Appended[1], "content")
                       = JStr(IF received'.fullResponse = <<>> THEN <<"No response received">>
                              ELSE received'.fullResponse)
             /\ received'.state = "error" =>
                  /\ Truthy(Prop(Appended[1], "error"))
                  /\ Prop(Appended[1], "error") = JStr(<<"Error: ">> \o received'.error)
             /\ received'.state \in {"response", "error"}]_vars
  /\ (sending # NotSending) ~> (sending = NotSending /\ ~provider.isLoading)

\* a request that the server refused has ended: after the user message comes
\* one assistant message with the error flag, and nothing is loading
C24_Witness ==
  /\ received = [state |-> "error", error |-> <<"OpenAI API key not configured">>]
  /\ sending = NotSending /\ ~provider.isLoading
  /\ Len(provider.messages) >= 2
  /\ Prop(provider.messages[Len(provider.messages) - 1], "role") = JStr(<<"user">>)
  /\ Prop(Last(provider.messages), "role") = JStr(<<"assistant">>)
  /\ Truthy(Prop(Last(provider.messages), "error"))

\* C25 as stated: under the default configuration (backend 'api') the mounted
\* interface has no configuration error and has put no error message in the
\* list, the message input is enabled whenever nothing is loading, and what is
\* sent goes to /api/chat.
C25_DefaultConfigWorks ==
  (config.backend = "api" /\ provider.isInitialized) =>
    /\ Mounted => InitError(config) = JNull
    /\ (Mounted /\ ~provider.isLoading) => ~InputDisabled
    /\ sending # NotSending => sending.to = "/api/chat"

\* what holds of it: what is sent under the default configuration goes to
\* /api/chat, and the input is disabled whenever a request is loading
C25_SendsGoToTheRoute ==
  (config.backend = "api" /\ provider.isInitialized) =>
    /\ sending # NotSending => sending.to = "/api/chat"
    /\ provider.isLoading => InputDisabled

\* the default configuration is mounted and open, nothing is loading, the
\* configuration error is in the list and the input is disabled
C25_InputIsDisabled ==
  /\ config = [backend |-> "api", apiKey |-> <<>>]
  /\ Visible /\ Mounted /\ ~provider.isLoading
  /\ InputDisabled
  /\ \E k \in 1..Len(provider.messages) :
       Prop(provider.messages[k], "error")
         = JStr(<<"Configuration Error: ", "Unsupported backend type ", Quote, "api", Quote>>)

(***************************************************************************)
(* Properties of the chat client over several loads of the page.           *)
(***************************************************************************)
\* the stored item is the latest state of the provider
Saved == localStorage = JStr(Stringify(StateToSave(provider)))

\* the step unmounts the provider: the tab is closed or the page is left
IsUnloadStep == provider.isInitialized /\ ~provider'.isInitialized

\* C26 as stated: every change of the persisted state after initialization
\* is eventually saved under the key, also a change made just before the
\* provider unmounts or the tab is closed: when the provider unmounts, the
\* stored item is its latest state.
C26_EveryChangeIsSaved ==
  /\ [][IsUnloadStep => localStorage' = JStr(Stringify(StateToSave(provider)))]_vars
  /\ (provider.isInitialized ~> (Saved \/ ~provider.isInitialized))

\* C26, what holds: while the provider stays mounted every change of the
\* persisted state is eventually saved under the key, and the unmount writes
\* nothing.
C26_SavedWhileMounted ==
  /\ [][IsUnloadStep => localStorage' = localStorage]_vars
  /\ (provider.isInitialized ~> (Saved \/ ~provider.isInitialized))

\* a reply has been added to a conversation, its save is still pending and
\* the stored item does not hold it: the tab can be closed now
C26_UnsavedChangeAtClose ==
  /\ provider.isInitialized /\ timeouts # {} /\ ~Saved
  /\ WellFormedItem(localStorage)
  /\ Len(Prop(JsonParse(localStorage.s).v, "messages").a) < Len(provider.messages)
  /\ Prop(Last(provider.messages), "role") = JStr(<<"assistant">>)
  /\ ENABLED CloseTab

\* the messages of a well-formed stored item
StoredMessages(stored) == Prop(JsonParse(stored.s).v, "messages").a

\* C28: storage is never written before the restore has run: no save is
\* pending before initialization, the load changes the item only by removing
\* one that is not well-formed, and every other change of the item is a
\* write of the state of the initialized provider; a load restores the
\* messages of a well-formed item and leaves the item, and a write over a
\* well-formed item holds its messages first, so a stored conversation is
\* never overwritten by the default empty state.
C28_NoWriteBeforeRestore ==
  /\ [](~provider.isInitialized => timeouts = {})
  /\ [][/\ (IsLoadStep /\ WellFormedItem(localStorage)) =>
             /\ localStorage' = localStorage
             /\ provider'.messages = StoredMessages(localStorage)
        /\ (localStorage' # localStorage) =>
             \/ /\ IsLoadStep
                /\ ~WellFormedItem(localStorage)
                /\ localStorage' = NoItem
             \/ /\ provider.isInitialized
                /\ IsWriteStep
                /\ localStorage' = JStr(Stringify(StateToSave(provider)))
                /\ WellFormedItem(localStorage) =>
                     IsPrefix(StoredMessages(localStorage), provider.messages)]_vars

\* the stored conversation of two messages has been restored, a send has
\* added to it, and the write after it holds the two messages first
C28_Witness ==
  /\ provider.isInitialized /\ timeouts = {} /\ Saved
  /\ Len(provider.messages) = 4
  /\ Prop(provider.messages[3], "role") = JStr(<<"user">>)
  /\ SubSeq(StoredMessages(localStorage), 1, 2)
       = << Message("user-", "user", <<"hi">>),
            FailedMessage("error-", "assistant",
                          <<"I encountered an error processing your message.">>,
                          <<"Error: ", "Failed to fetch">>) >>

\* the message has an id, a role and a content that are strings and not
\* empty, and a numeric timestamp
IsCompleteMessage(msg) ==
  /\ msg.j = "obj"
  /\ \A key \in {"id", "role", "content"} :
       TypeOf(Prop(msg, key)) = "string" /\ Prop(msg, key).s # <<>>
  /\ TypeOf(Prop(msg, "timestamp")) = "number"

\* C29: every message of the list has a non-empty id, role and content and
\* a numeric timestamp, so every document the provider writes is accepted by
\* validatePersistedState on the next load (restoreState returns a state for
\* it and leaves the item) and restores the messages, isMinimized and isOpen
\* that were written.
C29_WrittenStateRoundTrips ==
  /\ [](\A k \in 1..Len(provider.messages) : IsCompleteMessage(provider.messages[k]))
  /\ [][IsWriteStep =>
         restoreState(localStorage')
           = [ok |-> TRUE, localStorage |-> localStorage',
              messages |-> provider.messages,
              isMinimized |-> provider.isMinimized,
              isOpen |-> provider.isOpen]]_vars
  /\ [][(IsLoadStep /\ WellFormedItem(localStorage)) =>
         /\ StateToSave(provider') = JsonParse(localStorage.s).v
              \/ Prop(JsonParse(localStorage.s).v, "version") # JStr(<<STORAGE_VERSION>>)
         /\ provider'.messages = StoredMessages(localStorage)
         /\ provider'.isMinimized = Prop(JsonParse(localStorage.s).v, "isMinimized").b
         /\ provider'.isOpen = Prop(JsonParse(localStorage.s).v, "isOpen").b]_vars

\* the page has been loaded again after a reply was written: the reply, which
\* this load has not received, is in the restored list, and the popup is
\* open as it was written
C29_Witness ==
  /\ provider.isInitialized /\ provider.isOpen
  /\ received = NothingReceived /\ sending = NotSending
  /\ Len(provider.messages) >= 2
  /\ Last(provider.messages)
       = Message("assistant-", "assistant", <<"Sirius is the brightest star.">>)
  /\ Saved

(***************************************************************************)
(* The star page (src/app/star/[id]/page.tsx), getStarById                  *)
(* (src/lib/supabase/stars.ts) and the two boundaries of the route.  An id  *)
(* is the text of the route segment, one character a token.                 *)
(***************************************************************************)
NaN == [j |-> "NaN"]

DigitChars == <<"0", "1", "2", "3", "4", "5", "6", "7", "8", "9">>

IsDigit(c) == \E d \in 1..10 : DigitChars[d] = c

DigitValue(c) == (CHOOSE d \in 1..10 : DigitChars[d] = c) - 1

RECURSIVE DigitRun(_)
\* the digits the text starts with
DigitRun(s) ==
  IF s # <<>> /\ IsDigit(Head(s)) THEN <<Head(s)>> \o DigitRun(Tail(s)) ELSE <<>>

RECURSIVE Decimal(_)
\* the number a run of digits denotes
Decimal(digits) ==
  IF digits = <<>> THEN 0
  ELSE 10 * Decimal(SubSeq(digits, 1, Len(digits) - 1)) + DigitValue(digits[Len(digits)])

\* parseInt(id, 10): leading whitespace is skipped, a sign is taken, then the
\* digits up to the first character that is not one; NaN when there is none
ParseInt(id) ==
  LET text == TrimStart(id)
      signed == text # <<>> /\ Head(text) \in {"-", "+"}
      run == DigitRun(IF signed THEN Tail(text) ELSE text)
  IN IF run = <<>> THEN NaN
     ELSE IF signed /\ Head(text) = "-" THEN JNum(0 - Decimal(run))
     ELSE JNum(Decimal(run))

\* how the database can fail a page render: not at all, with an error of the
\* query, or with the configuration missing
PageFailures == {"none", "query", "configuration"}

\* .from('stars').select('*').eq('id', id).single(): the row, or the error
\* PGRST116 when the rows that match are not exactly one
Single(rows, id) ==
  LET matching == {i \in 1..Len(rows) : rows[i].id = id.n}
  IN IF Cardinality(matching) = 1
     THEN [data |-> rows[CHOOSE i \in matching : TRUE], error |-> JNull]
     ELSE [data |-> JNull, error |-> [code |-> "PGRST116"]]

\* the answer of the database to the query of getStarById
QueryStar(rows, id, failure) ==
  IF failure = "query" THEN [data |-> JNull, error |-> [code |-> "57014"]]
  ELSE Single(rows, id)

\* a function that returns the value
StarReturned(value) == [ok |-> TRUE, value |-> value, thrown |-> Thrown(FALSE, <<>>)]

\* a function that throws
StarThrown(e) == [ok |-> FALSE, value |-> Undefined, thrown |-> e]

\* getStarById(id)
getStarById(id, rows, failure) ==
  IF failure = "configuration"
  THEN StarThrown(Thrown(TRUE, <<"Database configuration error. Please contact support.">>))
  ELSE IF QueryStar(rows, id, failure).error # JNull
  THEN IF QueryStar(rows, id, failure).error.code = "PGRST116" THEN StarReturned(JNull)
       ELSE StarThrown(Thrown(TRUE, <<"Unable to retrieve star data from database">>))
  ELSE StarReturned(QueryStar(rows, id, failure).data)

\* notFound(): the not-found boundary of the route renders StarNotFound
StarNotFound == [shown |-> "Star Not Found", by |-> "not-found"]

\* the page renders the star
StarDetails(star) == [shown |-> "details", by |-> "page", star |-> star]

\* StarDetailError({error}): the error boundary of the route
StarDetailError(e) ==
  [shown |-> IF \E i \in 1..Len(e.message) : e.message[i] \in {"NEXT_NOT_FOUND", "not found"}
             THEN "Star Not Found" ELSE "Something Went Wrong",
   by |-> "error", error |-> e]

\* StarDetailPage({params}) with what the boundaries make of it
StarDetailPage(id, rows, failure) ==
  LET starId == ParseInt(id)
      star == getStarById(starId, rows, failure)
  IN IF starId = NaN THEN StarNotFound
     ELSE IF ~star.ok THEN StarDetailError(star.thrown)
     ELSE IF star.value = JNull THEN StarNotFound
     ELSE StarDetails(star.value)

\* the ids requested
StarIds ==
  { <<"1">>, <<"2">>, <<"3">>, <<"4", "2">>, <<"0">>, <<"0", "3">>, <<"-", "1">>,
    <<"+", "2">>, <<" ", "3">>, <<"i", "n", "v", "a", "l", "i", "d", "-", "i", "d">>,
    <<"a", "b", "c", "@", "1", "2", "3">>, <<"-">>, <<"1", "a", "b", "c">>,
    <<"2", ".", "5">>, <<"3", "e", "2">> }

\* no page has been rendered
NoRender == [shown |-> "nothing"]

\* /star/[id] is requested and rendered
RenderStarPage(id, rows, failure) ==
  /\ starPage = NoRender
  /\ starPage' = [id |-> id, rows |-> rows, failure |-> failure,
                  render |-> StarDetailPage(id, rows, failure)]
  /\ UNCHANGED <<routeVars, toolRun, clientVars, gallery>>

\* one request of the star page, with every input of the bound
StarPageNext ==
  \E id \in StarIds, rows \in Catalogs, failure \in PageFailures :
    RenderStarPage(id, rows, failure)

(***************************************************************************)
(* Properties of the star page.                                             *)
(***************************************************************************)
\* the text is an integer written in decimal and nothing else: digits, with
\* or without a sign before them and whitespace around them
IsIntegerText(id) ==
  LET text == Trim(id)
      unsigned == IF text # <<>> /\ Head(text) \in {"-", "+"} THEN Tail(text) ELSE text
  IN unsigned # <<>> /\ \A i \in 1..Len(unsigned) : IsDigit(unsigned[i])

\* the text is a number written in decimal and nothing else: an integer, with
\* or without a fraction and an exponent after it
IsNumericText(id) ==
  LET text == Trim(id)
      unsigned == IF text # <<>> /\ Head(text) \in {"-", "+"} THEN Tail(text) ELSE text
      AllDigits(t) == t # <<>> /\ \A i \in 1..Len(t) : IsDigit(t[i])
  IN \E a \in 1..Len(unsigned), b \in 1..Len(unsigned) :
       /\ a <= b
       /\ AllDigits(SubSeq(unsigned, 1, a))
       /\ a < b => unsigned[a + 1] = "." /\ AllDigits(SubSeq(unsigned, a + 2, b))
       /\ b < Len(unsigned) =>
            unsigned[b + 1] = "e" /\ AllDigits(SubSeq(unsigned, b + 2, Len(unsigned)))

\* the integer such a text denotes
IntegerOf(id) ==
  LET text == Trim(id)
  IN IF Head(text) = "-" THEN 0 - Decimal(Tail(text))
     ELSE IF Head(text) = "+" THEN Decimal(Tail(text))
     ELSE Decimal(text)

\* the rows of the table the id identifies
RowsOf(id, rows) ==
  IF IsIntegerText(id) THEN {i \in 1..Len(rows) : rows[i].id = IntegerOf(id)} ELSE {}

\* what the claim says of one render of the page
RendersAsClaimed(p) ==
  /\ ~IsNumericText(p.id) => p.render = StarNotFound
  /\ (IsNumericText(p.id) /\ RowsOf(p.id, p.rows) = {} /\ p.failure = "none") =>
       p.render = StarNotFound
  /\ p.render.shown = "details" =>
       /\ p.failure = "none"
       /\ \E i \in RowsOf(p.id, p.rows) : p.render = StarDetails(p.rows[i])
  /\ (IsNumericText(p.id) /\ p.failure # "none") =>
       /\ p.render.by = "error"
       /\ p.render.shown # StarNotFound.shown

\* C20 as stated: the page shows the not-found state for every id that is not
\* a number and for every number that is the id of no row, shows the details
\* of a star only for the id of a row, and those of that row, and hands a
\* failure of the database other than a missing row to the error boundary,
\* which does not show it as not-found.
C20_NotFoundUnlessIdOfARow ==
  starPage # NoRender => RendersAsClaimed(starPage)

\* the same for the ids parseInt reads whole or not at all
C20_ForIdsReadWhole ==
  (starPage # NoRender /\ (IsIntegerText(starPage.id) \/ ParseInt(starPage.id) = NaN)) =>
    RendersAsClaimed(starPage)

\* the page requested with the id '1abc' shows the details of star 1
C20_PrefixIsTakenForId ==
  /\ starPage # NoRender
  /\ starPage.id = <<"1", "a", "b", "c">>
  /\ ~IsNumericText(starPage.id)
  /\ starPage.render.shown = "details"
  /\ starPage.render.star.id = 1

(***************************************************************************)
(* The star gallery (StarGallery) and its arrows (NavigationArrows).  The   *)
(* scroll container has the cards 352 px apart and the first card centred   *)
(* at scrollLeft 0.  A timeout handle is a positive number, 0 stands for    *)
(* undefined.                                                               *)
(***************************************************************************)
ScrollThreshold == 10
CardWidth == 320
Gap == 32

\* scrollAmount of handleNavigate
ScrollAmount == CardWidth + Gap

\* stars.length of the galleries
StarCounts == {0, 1, 3}

\* scrollWidth - clientWidth of the container over that many cards
MaxScrollLeft(stars) == IF stars = 0 THEN 0 ELSE (stars - 1) * ScrollAmount

\* the positions a scroll by wheel, touch, keys or script ends at or passes
ScrollPositions == {0, 8, 200, 352, 696, 704}

\* a calculateScrollState without the tolerance
CalculateWithoutThreshold(scrollLeft, maxScrollLeft) ==
  [canScrollLeft |-> scrollLeft > 0, canScrollRight |-> scrollLeft < maxScrollLeft]

\* calculateScrollState() over the container's scrollLeft and
\* scrollWidth - clientWidth
calculateScrollState(scrollLeft, maxScrollLeft) ==
  [canScrollLeft |-> scrollLeft > ScrollThreshold,
   canScrollRight |-> scrollLeft < maxScrollLeft - ScrollThreshold]

\* the attributes an ArrowButton renders
ArrowButton(visible) ==
  [ariaHidden |-> ~visible, tabIndex |-> IF visible THEN 0 ELSE -1,
   pointerEvents |-> IF visible THEN "auto" ELSE "none"]

\* the gallery before the page has rendered it
NoGallery ==
  [mounted |-> FALSE, stars |-> 0, prefersReducedMotion |-> FALSE, scrollLeft |-> 0,
   scrollState |-> [canScrollLeft |-> FALSE, canScrollRight |-> FALSE],
   throttleTimeoutRef |-> 0, transitionDelayRef |-> 0, debounceTimeoutRef |-> 0,
   pending |-> {}]

\* the NavigationArrows are on the page
ArrowsRendered == gallery.mounted /\ gallery.stars > 0

\* the two buttons as rendered
Arrows ==
  [left |-> ArrowButton(gallery.scrollState.canScrollLeft),
   right |-> ArrowButton(gallery.scrollState.canScrollRight)]

\* the handle setTimeout returns: the least that no ref and no pending
\* timeout of the gallery has
GalleryHandle(g) ==
  CHOOSE h \in 1..(Cardinality(g.pending) + 4) :
    /\ h \notin {g.throttleTimeoutRef, g.transitionDelayRef, g.debounceTimeoutRef}
    /\ \A t \in g.pending : t.handle # h
    /\ \A k \in 1..(h - 1) :
         \/ k \in {g.throttleTimeoutRef, g.transitionDelayRef, g.debounceTimeoutRef}
         \/ \E t \in g.pending : t.handle = k

\* clearTimeout(handle) in the gallery
ClearGalleryTimeout(g, handle) ==
  [g EXCEPT !.pending = {t \in @ : t.handle # handle}]

\* handleScroll, the listener of the container's scroll event: nothing while
\* throttleTimeoutRef is set, else the 100 ms timeout is set
handleScroll(g) ==
  IF g.throttleTimeoutRef # 0 THEN g
  ELSE [g EXCEPT !.throttleTimeoutRef = GalleryHandle(g),
                 !.pending = @ \cup {[kind |-> "throttle", handle |-> GalleryHandle(g),
                                      prefersReducedMotion |-> g.prefersReducedMotion]}]

\* the effect of NavigationArrows that attaches the listener: the initial
\* calculation
Subscribe(g) ==
  [g EXCEPT !.scrollState = calculateScrollState(g.scrollLeft, MaxScrollLeft(g.stars))]

\* the cleanup of that effect: both timeouts are cleared, the refs keep
\* their handles
Unsubscribe(g) ==
  ClearGalleryTimeout(ClearGalleryTimeout(g, g.throttleTimeoutRef), g.transitionDelayRef)

\* the page renders the gallery over that many stars; matches is what the
\* media query (prefers-reduced-motion: reduce) reports
MountGallery(stars, matches) ==
  /\ ~gallery.mounted
  /\ gallery' = IF stars = 0
                THEN [gallery EXCEPT !.mounted = TRUE]
                ELSE Subscribe([gallery EXCEPT !.mounted = TRUE, !.stars = stars,
                                               !.prefersReducedMotion = matches])
  /\ UNCHANGED <<routeVars, toolRun, clientVars, starPage>>

\* the container is scrolled to another position by the user and the scroll
\* event is dispatched
Scroll(to) ==
  /\ ArrowsRendered
  /\ to <= MaxScrollLeft(gallery.stars) /\ to # gallery.scrollLeft
  /\ gallery' = handleScroll([gallery EXCEPT !.scrollLeft = to])
  /\ UNCHANGED <<routeVars, toolRun, clientVars, starPage>>

\* container.scrollBy({left: delta}): the position moves by delta as far as
\* the scroll range goes, and the scroll event is dispatched when it moved
scrollBy(g, delta) ==
  LET to == IF g.scrollLeft + delta < 0 THEN 0
            ELSE IF g.scrollLeft + delta > MaxScrollLeft(g.stars)
            THEN MaxScrollLeft(g.stars)
            ELSE g.scrollLeft + delta
  IN IF to = g.scrollLeft THEN g ELSE handleScroll([g EXCEPT !.scrollLeft = to])

\* a handleNavigate that does not look at debounceTimeoutRef
NavigateUndebounced(g, direction) ==
  LET scrolled == scrollBy(g, IF direction = "left" THEN -ScrollAmount ELSE ScrollAmount)
  IN [scrolled EXCEPT
        !.debounceTimeoutRef = GalleryHandle(scrolled),
        !.pending = @ \cup {[kind |-> "debounce", handle |-> GalleryHandle(scrolled)]}]

\* handleNavigate(direction)
handleNavigate(g, direction) ==
  IF g.debounceTimeoutRef # 0 THEN g
  ELSE LET scrolled == scrollBy(g, IF direction = "left" THEN -ScrollAmount
                                                         ELSE ScrollAmount)
       IN [scrolled EXCEPT
             !.debounceTimeoutRef = GalleryHandle(scrolled),
             !.pending = @ \cup {[kind |-> "debounce", handle |-> GalleryHandle(scrolled)]}]

\* the keys and the click an arrow button takes
Activations == {"click", "Enter", " ", "Tab"}

\* the arrow of that direction is clicked, or a key is pressed on it: its
\* onClick runs for a click, Enter and Space; a hidden arrow takes no pointer
\* events and no focus by the Tab key
Activate(direction, by) ==
  /\ ArrowsRendered
  /\ Arrows[direction].pointerEvents = "auto" /\ Arrows[direction].tabIndex = 0
  /\ gallery' = IF by \in {"click", "Enter", " "} THEN handleNavigate(gallery, direction)
                ELSE gallery
  /\ UNCHANGED <<routeVars, toolRun, clientVars, starPage>>

\* the callback of a pending timeout runs
GalleryTimerFires(t) ==
  /\ t \in gallery.pending
  /\ LET g == [gallery EXCEPT !.pending = @ \ {t}]
         newScrollState == calculateScrollState(g.scrollLeft, MaxScrollLeft(g.stars))
     IN gallery' =
          CASE t.kind = "debounce" -> [g EXCEPT !.debounceTimeoutRef = 0]
            [] t.kind = "transition" ->
                 [g EXCEPT !.scrollState = t.newScrollState, !.transitionDelayRef = 0]
            [] t.kind = "throttle" /\ t.prefersReducedMotion ->
                 [g EXCEPT !.scrollState = newScrollState, !.throttleTimeoutRef = 0]
            [] t.kind = "throttle" /\ ~t.prefersReducedMotion ->
                 LET c == ClearGalleryTimeout(g, g.transitionDelayRef)
                 IN [c EXCEPT !.transitionDelayRef = GalleryHandle(c),
                              !.pending = @ \cup {[kind |-> "transition",
                                                   handle |-> GalleryHandle(c),
                                                   newScrollState |-> newScrollState]},
                              !.throttleTimeoutRef = 0]
  /\ UNCHANGED <<routeVars, toolRun, clientVars, starPage>>

\* the media query changes: StarGallery takes the new preference, handleScroll
\* is made anew, and the listener effect is cleaned up and run again
PreferenceChanges ==
  /\ ArrowsRendered
  /\ gallery' = Subscribe([Unsubscribe(gallery)
                             EXCEPT !.prefersReducedMotion = ~gallery.prefersReducedMotion])
  /\ UNCHANGED <<routeVars, toolRun, clientVars, starPage>>

\* one step of the gallery
GalleryNext ==
  \/ \E stars \in StarCounts, matches \in BOOLEAN : MountGallery(stars, matches)
  \/ \E to \in ScrollPositions : Scroll(to)
  \/ \E direction \in {"left", "right"}, by \in Activations : Activate(direction, by)
  \/ \E t \in gallery.pending : GalleryTimerFires(t)
  \/ PreferenceChanges

(***************************************************************************)
(* Properties of the gallery.                                               *)
(***************************************************************************)
\* the displayed scroll state is the one of the current position
UpToDate ==
  gallery.scrollState
    = calculateScrollState(gallery.scrollLeft, MaxScrollLeft(gallery.stars))

\* a hidden arrow has aria-hidden true and tabindex -1, a visible one
\* aria-hidden false and tabindex 0
AttributesFollowVisibility ==
  /\ Arrows.left.ariaHidden = ~gallery.scrollState.canScrollLeft
  /\ Arrows.left.tabIndex = (IF gallery.scrollState.canScrollLeft THEN 0 ELSE -1)
  /\ Arrows.right.ariaHidden = ~gallery.scrollState.canScrollRight
  /\ Arrows.right.tabIndex = (IF gallery.scrollState.canScrollRight THEN 0 ELSE -1)

\* C21 as stated: once the scroll state has been recomputed for the current
\* position, the left arrow is hidden at the leftmost position, the right
\* arrow is hidden at the rightmost position, and both are visible at every
\* position in between; a hidden arrow has aria-hidden true and tabindex -1,
\* a visible one aria-hidden false and tabindex 0.
C21_HiddenOnlyAtTheEnds ==
  ArrowsRendered =>
    /\ AttributesFollowVisibility
    /\ UpToDate =>
         /\ gallery.scrollLeft = 0 => Arrows.left.ariaHidden
         /\ gallery.scrollLeft = MaxScrollLeft(gallery.stars) => Arrows.right.ariaHidden
         /\ (0 < gallery.scrollLeft /\ gallery.scrollLeft < MaxScrollLeft(gallery.stars)) =>
              ~Arrows.left.ariaHidden /\ ~Arrows.right.ariaHidden

\* C21: as above, with the ends taken with the tolerance of 10 px: the left
\* arrow is hidden exactly when the position is at most 10 px from the
\* leftmost one, the right arrow exactly when it is at most 10 px from the
\* rightmost one, and both are visible at every other position.
C21_HiddenWithinTolerance ==
  ArrowsRendered =>
    /\ AttributesFollowVisibility
    /\ UpToDate =>
         /\ Arrows.left.ariaHidden <=> gallery.scrollLeft <= ScrollThreshold
         /\ Arrows.right.ariaHidden <=>
              gallery.scrollLeft >= MaxScrollLeft(gallery.stars) - ScrollThreshold
         /\ gallery.scrollLeft = 0 => Arrows.left.ariaHidden
         /\ gallery.scrollLeft = MaxScrollLeft(gallery.stars) => Arrows.right.ariaHidden

\* the gallery of three cards has been scrolled 8 px from the left end and
\* both timeouts have run: the left arrow is still hidden and out of the tab
\* order, the right one is visible and in it
C21_Witness ==
  /\ ArrowsRendered /\ gallery.stars = 3
  /\ gallery.scrollLeft = 8 /\ gallery.pending = {} /\ gallery.throttleTimeoutRef = 0
  /\ UpToDate
  /\ Arrows.left = [ariaHidden |-> TRUE, tabIndex |-> -1, pointerEvents |-> "none"]
  /\ Arrows.right = [ariaHidden |-> FALSE, tabIndex |-> 0, pointerEvents |-> "auto"]

\* the keys and the click that run the onClick of an arrow
ArrowKeys == {"click", "Enter", " "}

\* the signed scrollAmount of a direction
Delta(direction) == IF direction = "left" THEN -ScrollAmount ELSE ScrollAmount

\* the debounce timeout of handleNavigate is pending
Debouncing ==
  /\ gallery.debounceTimeoutRef # 0
  /\ \E t \in gallery.pending : t.kind = "debounce" /\ t.handle = gallery.debounceTimeoutRef

\* C22 as stated: every accepted activation of an arrow (a click, Enter or
\* Space) scrolls the gallery by exactly 352 px in the arrow's direction; an
\* activation while the debounce timeout of an accepted one is pending is
\* ignored; and that timeout always expires, so that later activations are
\* accepted again.
C22_ScrollsByOneCard ==
  /\ [](gallery.debounceTimeoutRef # 0 => Debouncing)
  /\ [][\A direction \in {"left", "right"}, by \in ArrowKeys :
          Activate(direction, by) =>
            IF gallery.debounceTimeoutRef # 0 THEN gallery' = gallery
            ELSE /\ gallery'.scrollLeft = gallery.scrollLeft + Delta(direction)
                 /\ Debouncing']_vars
  /\ (gallery.debounceTimeoutRef # 0 ~> gallery.debounceTimeoutRef = 0)

\* C22: as above, except that the scroll ends where the scroll range ends:
\* an accepted activation moves the gallery by exactly 352 px in the arrow's
\* direction when that much of the range is left, and to the end of the
\* range when less is left.
C22_ScrollsByOneCardOrToTheEnd ==
  /\ [](gallery.debounceTimeoutRef # 0 => Debouncing)
  /\ [][\A direction \in {"left", "right"}, by \in ArrowKeys :
          Activate(direction, by) =>
            IF gallery.debounceTimeoutRef # 0 THEN gallery' = gallery
            ELSE /\ gallery'.scrollLeft =
                      (IF gallery.scrollLeft + Delta(direction) < 0 THEN 0
                       ELSE IF gallery.scrollLeft + Delta(direction)
                                 > MaxScrollLeft(gallery.stars)
                       THEN MaxScrollLeft(gallery.stars)
                       ELSE gallery.scrollLeft + Delta(direction))
                 /\ Debouncing']_vars
  /\ (gallery.debounceTimeoutRef # 0 ~> gallery.debounceTimeoutRef = 0)

\* the right arrow has been activated at 200 px: the gallery is at 552 px,
\* where only an arrow takes it, and the debounce timeout is pending
C22_Witness ==
  /\ ArrowsRendered
  /\ gallery.scrollLeft = 200 + ScrollAmount
  /\ Debouncing

\* throttleTimeoutRef holds the handle of a timeout that is not pending:
\* handleScroll returns at once and nothing resets the ref
ThrottleBlocked ==
  /\ gallery.throttleTimeoutRef # 0
  /\ ~\E t \in gallery.pending : t.kind = "throttle" /\ t.handle = gallery.throttleTimeoutRef

\* the step moves the scroll position
IsScrollStep == gallery'.scrollLeft # gallery.scrollLeft

\* C27 as stated: the throttle never remains blocked, and after the scroll
\* events have stopped the displayed visibility of the arrows eventually
\* matches the final position and stays so, whatever the order of scroll
\* events, timeouts and changes of the reduced-motion preference.
C27_ArrowsCatchUp ==
  /\ [](~ThrottleBlocked)
  /\ ([]<><<IsScrollStep>>_vars \/ <>[]UpToDate)

\* C27, what holds: the throttle gets blocked only by a change of the
\* preference while the throttle timeout is pending, and then stays blocked;
\* as long as that does not happen, the displayed visibility eventually
\* matches the final position after the scroll events have stopped.
C27_ArrowsCatchUpUnlessBlocked ==
  /\ [][(~ThrottleBlocked /\ ThrottleBlocked') =>
          /\ gallery'.prefersReducedMotion # gallery.prefersReducedMotion
          /\ \E t \in gallery.pending :
               t.kind = "throttle" /\ t.handle = gallery.throttleTimeoutRef]_vars
  /\ [][ThrottleBlocked => ThrottleBlocked']_vars
  /\ ([]<><<IsScrollStep>>_vars \/ <>[]UpToDate \/ <>[]ThrottleBlocked)

\* the preference changed while the throttle timeout was pending and the
\* gallery was scrolled to its right end afterwards: no timeout is pending,
\* the throttle is blocked and the right arrow is still displayed
C27_BlockedAndStale ==
  /\ ArrowsRendered /\ gallery.stars = 3
  /\ ThrottleBlocked /\ gallery.pending = {}
  /\ gallery.scrollLeft = MaxScrollLeft(gallery.stars)
  /\ ~Arrows.right.ariaHidden
  /\ ~UpToDate

(***************************************************************************)
(* Properties of the route and the client together.                         *)
(***************************************************************************)
\* the text has the run of tokens somewhere in it
HasRun(text, run) ==
  \E i \in 0..(Len(text) - Len(run)) : SubSeq(text, i + 1, i + Len(run)) = run

\* the request ended with 200 after the model answered the tool results with
\* empty content, although a navigate_to_page call of the request succeeded
IsNavigationFallback(r) ==
  /\ pc[r] = "done" /\ http[r].status = 200
  /\ Len(answers[r]) = 2 /\ ContentIsEmpty(answers[r][2])
  /\ \E k \in 1..Len(toolMessages[r]) :
       /\ toolMessages[r][k].toolName = "navigate_to_page"
       /\ JsonParse(toolMessages[r][k].content).ok
       /\ Prop(JsonParse(toolMessages[r][k].content).v, "success") = JBool(TRUE)

\* C23: a reply of the route is the content the model returned, or a text of
\* the route's own that has neither the navigation marker nor the payload of a
\* tool result in it; when the route puts its navigation fallback in place of
\* an empty answer to the tool results, the reply is that fallback text, the
\* client's detection finds nothing in it, and so no pending navigation is set,
\* although navigate_to_page succeeded in the request.
C23_FallbackCarriesNoMarker ==
  \A r \in Requests :
    /\ (pc[r] = "done" /\ http[r].status = 200) =>
         \/ http[r].body = answers[r][Len(answers[r])].content
         \/ /\ \A k \in 1..Len(http[r].body) : http[r].body[k] # Marker
            /\ \A k \in 1..Len(toolMessages[r]) :
                 ~HasRun(http[r].body, toolMessages[r][k].content)
    /\ IsNavigationFallback(r) =>
         /\ SubSeq(http[r].body, 1, 1) = <<"I'll take you to that page now. ">>
         /\ \A k \in 1..Len(http[r].body) : http[r].body[k] # Marker
         /\ detectNavigationAction(http[r].body) = JNull

\* navigate_to_page succeeded, the model answered the result with nothing, and
\* the reply is the fallback text, in which the client detects no navigation
C23_Witness ==
  \E r \in Requests :
    /\ IsNavigationFallback(r)
    /\ http[r].body = <<"I'll take you to that page now. ", "Navigating to homepage">>
    /\ detectNavigationAction(http[r].body) = JNull

(***************************************************************************)
(* The specifications.                                                      *)
(***************************************************************************)
\* no request has arrived
RouteInit ==
  /\ apiKey \in ApiKeys
  /\ pc = [r \in Requests |-> Fresh.pc]
  /\ body = [r \in Requests |-> Fresh.body]
  /\ messages = [r \in Requests |-> Fresh.messages]
  /\ response = [r \in Requests |-> Fresh.response]
  /\ originalToolCalls = [r \in Requests |-> Fresh.originalToolCalls]
  /\ toolMessages = [r \in Requests |-> Fresh.toolMessages]
  /\ running = [r \in Requests |-> Fresh.running]
  /\ invocations = [r \in Requests |-> Fresh.invocations]
  /\ answers = [r \in Requests |-> Fresh.answers]
  /\ execLog = [r \in Requests |-> Fresh.execLog]
  /\ caught = [r \in Requests |-> Fresh.caught]
  /\ http = [r \in Requests |-> Fresh.http]

\* the state after construction: no request, no tool run
Init ==
  /\ RouteInit
  /\ toolRun = NoRun
  /\ ClientInit
  /\ config = [backend |-> "api", apiKey |-> <<>>]
  /\ localStorage = NoItem
  /\ starPage = NoRender
  /\ gallery = NoGallery

\* one request served on its own, with every tool-call list of the bound
Next ==
  Serve("r1", [bodies |-> TurnBodies, first |-> ModelOutcomes, second |-> FinalOutcomes,
               faults |-> Faults, dbs |-> DbOutcomes])

Spec == Init /\ [][Next]_vars

\* one request served on its own, with every body of the bound
HistoryNext ==
  Serve("r1",
        [bodies |-> Bodies,
         first |-> { Returned(ModelResponse(<<"Sirius is the brightest star.">>, <<>>)),
                     Returned(ModelResponse(<<>>, ToolCalls(<<
                       [name |-> "get_weather", args |-> JObj(<<>>)],
                       [name |-> "navigate_to_page",
                        args |-> JObj(<< <<"destination", JStr(<<"homepage">>)>> >>)] >>))),
                     Failed(Thrown(TRUE, <<"Connection error.">>)) },
         second |-> { Returned(ModelResponse(<<"Taking you home.">>, <<>>)),
                      Returned(ModelResponse(<<>>, <<>>)) },
         faults |-> {NoFault}, dbs |-> {"ok"}])

HistorySpec == Init /\ [][HistoryNext]_vars

\* two requests served at the same time, their steps interleaved at the awaits
ConcurrentNext ==
  \E r \in Requests :
    Serve(r,
          [bodies |-> TurnBodies,
           first |-> { Returned(ModelResponse(<<"Sirius is the brightest star.">>, <<>>)),
                       Returned(ModelResponse(<<>>, ToolCalls(<<
                         [name |-> "get_weather", args |-> JObj(<<>>)],
                         [name |-> "navigate_to_page",
                          args |-> JObj(<< <<"destination", JStr(<<"homepage">>)>> >>)] >>))),
                       Returned(ModelResponse(<<" ", "\n">>, ToolCalls(<<
                         [name |-> "search_stars",
                          args |-> JObj(<< <<"query", JStr(<<"v", "E", "g">>)>> >>)] >>))),
                       Failed(Thrown(TRUE, <<"Connection error.">>)) },
           second |-> { Returned(ModelResponse(<<"Here you are.">>, <<>>)),
                        Returned(ModelResponse(<<>>, <<>>)) },
           faults |-> Faults, dbs |-> {"ok", "error"}])

ConcurrentSpec == Init /\ [][ConcurrentNext]_vars

\* one tool executed directly, with every input of the bound
ToolsNext ==
  \/ \E params \in SearchParams, db \in DbOutcomes, rows \in Catalogs :
       CallSearch(params, db, rows)
  \/ \E params \in NavigateParams : CallNavigate(params)

ToolsSpec == Init /\ [][ToolsNext]_vars

\* a page load: the provider is constructed over what the browser has stored
PageLoad ==
  /\ RouteInit
  /\ apiKey = Undefined
  /\ toolRun = NoRun
  /\ ClientInit
  /\ starPage = NoRender
  /\ gallery = NoGallery

ClientSpec == PageLoad /\ [][ClientNext]_vars

\* the chat client over several page loads
\* the full responses of the backend over several loads of the page
SessionReplies ==
  { <<>>,
    <<"Sirius is the brightest star.">>,
    <<"Taking you home. ", Marker, " ">>
      \o NavigationText(<< <<"destination", JStr(<<"homepage">>)>> >>) }

SessionNext ==
  \/ Mount
  \/ ToggleMinimize
  \/ ToggleOpen
  \/ \E input \in UserTexts : handleSend(input)
  \/ Retry
  \/ \E fullResponse \in SessionReplies : ResponseArrives(fullResponse)
  \/ SendFails(<<"Failed to fetch">>)
  \/ ConfirmNavigation(FALSE)
  \/ CancelNavigation
  \/ \E t \in timeouts : SaveTimerFires(t)
  \/ CloseTab

SessionSpec == PageLoad /\ [][SessionNext]_vars

\* the same, with every request the client has sent settled in the end: fetch
\* resolves or rejects
ClientFairSpec ==
  /\ ClientSpec
  /\ WF_vars(\/ \E fullResponse \in Replies : ResponseArrives(fullResponse)
             \/ \E error \in SendErrors : SendFails(error))

\* the sessions where a save timeout that stays pending does run
SessionFairSpec == SessionSpec /\ WF_vars(\E t \in timeouts : SaveTimerFires(t))

StarPageSpec == Init /\ [][StarPageNext]_vars

GallerySpec == Init /\ [][GalleryNext]_vars

\* the galleries where a timeout of each kind that stays pending does run
GalleryFairSpec ==
  /\ GallerySpec
  /\ \A kind \in {"throttle", "transition", "debounce"} :
       WF_vars(\E t \in gallery.pending : t.kind = kind /\ GalleryTimerFires(t))

====
